---- MODULE Spec2Model ----
(***************************************************************************)
(* Model of rmgpy/solver/mbSampled.pyx (class MBSampledReactor) and of the *)
(* sticking-coefficient laws of rmgpy/kinetics/surface.pyx.                *)
(*                                                                         *)
(* Numbers.  Every float64 of the program is an extended rational <<n,d>>  *)
(* in lowest terms with d >= 0: d > 0 is the finite value n/d, <<1,0>> is  *)
(* +inf, <<-1,0>> is -inf and <<0,0>> is NaN, with the IEEE-754 rules for  *)
(* the operations on them (rounding is not modelled).                      *)
(*                                                                         *)
(* Arrays are functions on 0..n-1, as in the source; the three reactant    *)
(* (product, network) slots of a reaction are a tuple <<a, b, c>>, so the  *)
(* source's ir[j,0], ir[j,1], ir[j,2] are ir[j][1], ir[j][2], ir[j][3].    *)
(* An unused slot holds -1.                                                *)
(***************************************************************************)
EXTENDS Integers, Sequences, FiniteSets, TLC

(***************************************************************************)
(* Extended rational arithmetic (float64 without rounding)                 *)
(***************************************************************************)
Abs(n) == IF n < 0 THEN -n ELSE n

Sign(n) == IF n < 0 THEN -1 ELSE IF n > 0 THEN 1 ELSE 0

RECURSIVE GCD(_, _)
GCD(a, b) == IF b = 0 THEN a ELSE GCD(b, a % b)

Norm(n, d) ==
    IF d = 0 THEN <<Sign(n), 0>>
    ELSE LET g == GCD(Abs(n), Abs(d))
         IN  <<Sign(d) * (n \div g), Abs(d) \div g>>

IntR(n) == <<n, 1>>

Zero == <<0, 1>>

NaN == <<0, 0>>

PosInf == <<1, 0>>

IsFinite(a) == a[2] # 0

IsNaN(a) == a = NaN

RNeg(a) == <<-a[1], a[2]>>

RMul(a, b) == Norm(a[1] * b[1], a[2] * b[2])

RAdd(a, b) ==
    IF IsFinite(a) /\ IsFinite(b)
    THEN LET g == GCD(a[2], b[2])
             l == (a[2] \div g) * b[2]
         IN  Norm(a[1] * (l \div a[2]) + b[1] * (l \div b[2]), l)
    ELSE IF IsNaN(a) \/ IsNaN(b) THEN NaN
    ELSE IF IsFinite(a) THEN b
    ELSE IF IsFinite(b) THEN a
    ELSE IF a = b THEN a ELSE NaN

RSub(a, b) == RAdd(a, RNeg(b))

\* 1/b under IEEE-754: 1/0 = +inf, 1/inf = 0, 1/NaN = NaN.
RRecip(b) ==
    IF b[1] = 0 THEN (IF b[2] = 0 THEN NaN ELSE PosInf)
    ELSE IF b[1] < 0 THEN <<-b[2], -b[1]>> ELSE <<b[2], b[1]>>

\* a / b as numpy computes it: no exception.
RDiv(a, b) == RMul(a, RRecip(b))

\* a < b; any comparison with NaN is false (inf - inf of one sign is NaN).
RLt(a, b) == ~IsNaN(a) /\ ~IsNaN(b) /\ RSub(a, b)[1] < 0

RLe(a, b) == ~IsNaN(a) /\ ~IsNaN(b) /\ (a = b \/ RLt(a, b))

\* sum of f over 0..n-1, left to right (numpy.sum)
RECURSIVE SumTo(_, _)
SumTo(f, n) == IF n = 0 THEN Zero ELSE RAdd(SumTo(f, n - 1), f[n - 1])

Zeros(n) == [i \in 0..(n - 1) |-> Zero]

(***************************************************************************)
(* Collaborators of the reactor that live outside the modelled files       *)
(***************************************************************************)
\* rmgpy.constants.R, the gas constant, in a unit system where it is the
\* integer 8 (8.314... in SI): every formula of the reactor is rational in R.
R == 8

\* A species object is the record of its label; None is the record with the
\* empty label.
Species(label) == [label |-> label]

NoneVal == Species(<< >>)

Marker == "_obs"

\* A species label is a sequence of tokens; "X_obs" is <<"X", "_obs">>.
LabelX == <<"X">>

LabelXobs == <<"X", Marker>>

LabelE == <<"E">>

SpX == Species(LabelX)

SpXobs == Species(LabelXobs)

SpE == Species(LabelE)

\* Kinetics laws.  A pressure-independent law (Arrhenius with n = 0 and
\* Ea = 0) returns A; a pressure-dependent one is a third-body law in its
\* low-pressure limit, A * [M] with [M] = P / (R * T).
getRateCoefficient(kin, T, P) ==
    IF kin.pdep
    THEN RMul(kin.A, RDiv(RDiv(P, IntR(R)), T))
    ELSE kin.A

isPressureDependent(kin) == kin.pdep

\* kinetics.getEffectiveColliderEfficiencies(coreSpecies): one entry per
\* core species, 1 for a species that the efficiency map does not list.
getEffectiveColliderEfficiencies(kin, numCore) ==
    [k \in 0..(numCore - 1) |->
        IF k \in DOMAIN kin.efficiencies THEN kin.efficiencies[k] ELSE IntR(1)]

NoEfficiencies == [k \in {} |-> Zero]

Arrhenius(a) == [A |-> IntR(a), pdep |-> FALSE, efficiencies |-> NoEfficiencies]

ThirdBody(a, eff) == [A |-> IntR(a), pdep |-> TRUE, efficiencies |-> eff]

(***************************************************************************)
(* The kinetic models handed to initializeModel.  Species 0 and 1 are the  *)
(* core species X and X_obs, species 2 is the edge species E.              *)
(***************************************************************************)
Rxn(re, pr, rev, keq, kin, sc) ==
    [reactants |-> re, products |-> pr, reversible |-> rev, Keq |-> keq,
     kinetics |-> kin, specificCollider |-> sc]

ColliderKinds == {"arrhenius", "pdep", "generic", "specific", "both"}

\* kinetics and specific collider of the first core reaction, by kind
KindKinetics(kind) ==
    CASE kind = "arrhenius" -> Arrhenius(1)
      [] kind = "pdep"      -> ThirdBody(1, NoEfficiencies)
      [] kind = "generic"   -> ThirdBody(1, [k \in {1} |-> IntR(3)])
      [] kind = "specific"  -> ThirdBody(1, NoEfficiencies)
      [] kind = "both"      -> ThirdBody(1, [k \in {1} |-> IntR(3)])

KindCollider(kind) == IF kind \in {"specific", "both"} THEN SpX ELSE NoneVal

Mechanism(kind, rev) ==
    [coreSpecies   |-> <<SpX, SpXobs>>,
     edgeSpecies   |-> <<SpE>>,
     coreReactions |-> <<
        \* X -> X_obs
        Rxn(<<0, -1, -1>>, <<1, -1, -1>>, rev, <<1, 2>>,
            KindKinetics(kind), KindCollider(kind)),
        \* X + X_obs + X <=> X_obs + X_obs, third-body with efficiencies {X: 2}
        Rxn(<<0, 1, 0>>, <<1, 1, -1>>, TRUE, IntR(2),
            ThirdBody(1, [k \in {0} |-> IntR(2)]), NoneVal) >>,
     edgeReactions |-> <<
        \* X + X -> E, not pressure-dependent although it names a collider
        Rxn(<<0, 0, -1>>, <<2, -1, -1>>, FALSE, IntR(1), Arrhenius(1), SpX),
        \* E <=> X + X_obs, with X_obs as the specific collider
        Rxn(<<2, -1, -1>>, <<0, 1, -1>>, TRUE, IntR(2),
            ThirdBody(2, NoEfficiencies), SpXobs) >>,
     \* three pressure-dependent networks, leaking from X + X_obs, from X_obs
     \* and from X + X_obs + X
     networks      |-> << [source |-> <<SpX, SpXobs>>, coefficient |-> IntR(3)],
                          [source |-> <<SpXobs>>, coefficient |-> IntR(2)],
                          [source |-> <<SpX, SpXobs, SpX>>, coefficient |-> IntR(1)] >>]

\* Two core species and the single irreversible core reaction X -> E with
\* k = 1, no edge, no network.
SingleReaction ==
    [coreSpecies   |-> <<SpX, SpE>>,
     edgeSpecies   |-> << >>,
     coreReactions |-> << Rxn(<<0, -1, -1>>, <<1, -1, -1>>, FALSE, IntR(1),
                              Arrhenius(1), NoneVal) >>,
     edgeReactions |-> << >>,
     networks      |-> << >>]

\* labels that carry the marker without naming an observed twin of a core
\* species: "_obsX" (marker in front), "E_obs" (its twin E is an edge
\* species) and "Y_obs" (no species Y)
LabelObsX == <<Marker, "X">>

LabelEobs == <<"E", Marker>>

LabelYobs == <<"Y", Marker>>

\* Core species X and _obsX with the irreversible core reaction X -> _obsX,
\* k = 1.
MarkerInFront ==
    [coreSpecies   |-> <<SpX, Species(LabelObsX)>>,
     edgeSpecies   |-> << >>,
     coreReactions |-> << Rxn(<<0, -1, -1>>, <<1, -1, -1>>, FALSE, IntR(1),
                              Arrhenius(1), NoneVal) >>,
     edgeReactions |-> << >>,
     networks      |-> << >>]

\* Core species E_obs and Y_obs, edge species E; the core reaction
\* E_obs -> Y_obs and the edge reaction E_obs -> E, both irreversible, k = 1,
\* and the reversible edge reaction E_obs + E <=> E with the edge species on
\* both sides.
UnpairedObserved ==
    [coreSpecies   |-> <<Species(LabelEobs), Species(LabelYobs)>>,
     edgeSpecies   |-> <<SpE>>,
     coreReactions |-> << Rxn(<<0, -1, -1>>, <<1, -1, -1>>, FALSE, IntR(1),
                              Arrhenius(1), NoneVal) >>,
     edgeReactions |-> << Rxn(<<0, -1, -1>>, <<2, -1, -1>>, FALSE, IntR(1),
                              Arrhenius(1), NoneVal),
                          Rxn(<<0, 2, -1>>, <<2, -1, -1>>, TRUE, IntR(1),
                              Arrhenius(1), NoneVal) >>,
     networks      |-> << >>]

Mechanisms ==
    {Mechanism(kind, rev) : kind \in ColliderKinds, rev \in BOOLEAN}
        \cup {SingleReaction, MarkerInFront, UnpairedObserved}

Temperatures == {1}

Pressures == {8, 16}

SamplingConstants == {2}

\* initial mole "fractions" as the caller supplies them, keyed by label
InitialFractionChoices ==
    { [l \in {} |-> 0],
      [l \in {LabelX} |-> 1],
      [l \in {LabelX, LabelXobs} |-> IF l = LabelX THEN 2 ELSE 1] }

\* Bound of the model: the integrator hands residual mole numbers in
\* MoleValues (a slightly negative component is what a DAE solver produces
\* near zero).
MaxMoles == 1

MoleValues == {-1} \cup 0..MaxMoles

\* a Python list or numpy array (indices from 0) from a TLA+ sequence
ToArray(seq) == [i \in 0..(Len(seq) - 1) |-> seq[i + 1]]

\* len(a) or a.shape[0] of such an array
Size(a) == Cardinality(DOMAIN a)

(***************************************************************************)
(* The state: the fields of one MBSampledReactor, the kinetic model of its *)
(* environment and a record of the last call.                              *)
(***************************************************************************)
VARIABLES
    pc,                 \* "constructed", "converted", "initialized"
    model,              \* the kinetic model the caller passes to initializeModel
    T, P, k_sampling, initialMoleFractions, constantSpeciesList, V,
    numCoreSpecies, numCoreReactions, speciesIndex,
    reactantIndices, productIndices, networkIndices, networkLeakCoefficients,
    y0, kf, kb, Keq,
    coreSpeciesConcentrations, coreSpeciesRates, coreSpeciesProductionRates,
    coreSpeciesConsumptionRates, coreReactionRates, edgeSpeciesRates,
    edgeReactionRates, networkLeakRates,
    pdepColliderReactionIndices, pdepColliderKinetics, colliderEfficiencies,
    pdepSpecificColliderReactionIndices, pdepSpecificColliderKinetics,
    specificColliderSpecies,
    generated,          \* history: kf and kb as generate_rate_coefficients left them
    call,               \* history: the last call, its arguments and its outcome
    sticking            \* the last sticking-coefficient evaluation (surface.pyx)

reactorState == <<T, P, k_sampling, initialMoleFractions, constantSpeciesList>>

baseArrays == <<numCoreSpecies, numCoreReactions, speciesIndex, reactantIndices,
                productIndices, networkIndices, networkLeakCoefficients>>

rateBuffers == <<coreSpeciesConcentrations, coreSpeciesRates,
                 coreSpeciesProductionRates, coreSpeciesConsumptionRates,
                 coreReactionRates, edgeSpeciesRates, edgeReactionRates,
                 networkLeakRates>>

colliderTables == <<pdepColliderReactionIndices, pdepColliderKinetics,
                    colliderEfficiencies, pdepSpecificColliderReactionIndices,
                    pdepSpecificColliderKinetics, specificColliderSpecies>>

vars == <<pc, model, reactorState, V, baseArrays, y0, kf, kb, Keq,
          rateBuffers, colliderTables, generated, call, sticking>>

\* None as __init__ stores it in the six collider fields (lines 122-127): a
\* value different from every array
NoneTable == [i \in {-1} |-> -1]

NoCall == [op |-> "none"]

NoSticking == [law |-> "none"]

\* MBSampledReactor.__init__
Init ==
    /\ pc = "constructed"
    /\ model \in Mechanisms
    /\ T \in {IntR(t) : t \in Temperatures}
    /\ P \in {IntR(p) : p \in Pressures}
    /\ k_sampling \in {IntR(k) : k \in SamplingConstants}
    /\ initialMoleFractions \in InitialFractionChoices
    /\ constantSpeciesList = << >>
    /\ V = Zero
    /\ numCoreSpecies = 0
    /\ numCoreReactions = 0
    /\ speciesIndex = << >>
    /\ reactantIndices = << >>
    /\ productIndices = << >>
    /\ networkIndices = << >>
    /\ networkLeakCoefficients = << >>
    /\ y0 = << >>
    /\ kf = << >>
    /\ kb = << >>
    /\ Keq = << >>
    /\ coreSpeciesConcentrations = << >>
    /\ coreSpeciesRates = << >>
    /\ coreSpeciesProductionRates = << >>
    /\ coreSpeciesConsumptionRates = << >>
    /\ coreReactionRates = << >>
    /\ edgeSpeciesRates = << >>
    /\ edgeReactionRates = << >>
    /\ networkLeakRates = << >>
    /\ pdepColliderReactionIndices = NoneTable
    /\ pdepColliderKinetics = NoneTable
    /\ colliderEfficiencies = NoneTable
    /\ pdepSpecificColliderReactionIndices = NoneTable
    /\ pdepSpecificColliderKinetics = NoneTable
    /\ specificColliderSpecies = NoneTable
    /\ generated = [kf |-> << >>, kb |-> << >>]
    /\ call = NoCall
    /\ sticking = NoSticking

(***************************************************************************)
(* convertInitialKeysToSpeciesObjects(speciesDict)                         *)
(***************************************************************************)
\* the caller's dictionary from label to species object
speciesDict(m) ==
    LET all == m.coreSpecies \o m.edgeSpecies
    IN  [l \in {all[i].label : i \in 1..Len(all)} |-> Species(l)]

\* convertInitialKeysToSpeciesObjects with the bug of giving every species the
\* mole fraction of one label
convertInitialKeysLosingValues(fractions, dict) ==
    [s \in {dict[l] : l \in DOMAIN fractions} |->
        fractions[(CHOOSE l \in DOMAIN fractions : TRUE)]]

convertInitialKeysToSpeciesObjects(fractions, dict) ==
    [s \in {dict[l] : l \in DOMAIN fractions} |->
        fractions[(CHOOSE l \in DOMAIN fractions : dict[l] = s)]]

\* the dictionaries a caller may pass: the species of the model, or those of
\* the whole mechanism the model was taken from
mechanismSpeciesDict == [l \in {LabelX, LabelXobs, LabelE} |-> Species(l)]

SpeciesDicts(m) == {speciesDict(m), mechanismSpeciesDict}

\* ConvertInitialKeys with the bug of skipping the labels the dictionary lacks
ConvertInitialKeysSkippingMissing ==
    /\ pc = "constructed"
    /\ \E dict \in SpeciesDicts(model) :
        /\ initialMoleFractions' =
               convertInitialKeysToSpeciesObjects(
                   [l \in DOMAIN initialMoleFractions \cap DOMAIN dict |->
                       initialMoleFractions[l]], dict)
        /\ pc' = "converted"
        /\ call' = [op |-> "convertInitialKeysToSpeciesObjects",
                    keys |-> DOMAIN initialMoleFractions,
                    speciesDict |-> dict, raised |-> FALSE, error |-> "none"]
    /\ UNCHANGED <<model, T, P, k_sampling, constantSpeciesList, V,
                   baseArrays, y0, kf, kb, Keq, rateBuffers, colliderTables,
                   generated, sticking>>

\* speciesDict[label] raises KeyError for a label the dictionary lacks (line
\* 145), before self.initialMoleFractions is assigned (line 146)
ConvertInitialKeys ==
    /\ pc = "constructed"
    /\ \E dict \in SpeciesDicts(model) :
        IF DOMAIN initialMoleFractions \subseteq DOMAIN dict
        THEN /\ initialMoleFractions' =
                    convertInitialKeysToSpeciesObjects(initialMoleFractions, dict)
             /\ pc' = "converted"
             /\ call' = [op |-> "convertInitialKeysToSpeciesObjects",
                         keys |-> DOMAIN initialMoleFractions,
                         speciesDict |-> dict, raised |-> FALSE, error |-> "none"]
        ELSE /\ call' = [op |-> "convertInitialKeysToSpeciesObjects",
                         keys |-> DOMAIN initialMoleFractions,
                         speciesDict |-> dict, raised |-> TRUE, error |-> "KeyError"]
             /\ UNCHANGED <<pc, initialMoleFractions>>
    /\ UNCHANGED <<model, T, P, k_sampling, constantSpeciesList, V,
                   baseArrays, y0, kf, kb, Keq, rateBuffers, colliderTables,
                   generated, sticking>>

(***************************************************************************)
(* initializeModel and the methods it calls                                *)
(***************************************************************************)
\* itertools.chain(coreReactions, edgeReactions); reactionIndex[rxn] is the
\* position of rxn in this list.
allReactions(m) == ToArray(m.coreReactions \o m.edgeReactions)

numReactions(m) == Len(m.coreReactions) + Len(m.edgeReactions)

\* ReactionSystem.initializeModel: sizes, index maps, index arrays.
baseSpeciesIndex(m) ==
    LET all == m.coreSpecies \o m.edgeSpecies
    IN  [s \in {all[i] : i \in 1..Len(all)} |->
            (CHOOSE i \in 0..(Len(all) - 1) : all[i + 1] = s)]

baseReactantIndices(m) == [j \in 0..(numReactions(m) - 1) |-> allReactions(m)[j].reactants]

baseProductIndices(m) == [j \in 0..(numReactions(m) - 1) |-> allReactions(m)[j].products]

\* ReactionSystem.compute_network_variables
baseNetworkIndices(m) ==
    [j \in 0..(Len(m.networks) - 1) |->
        [l \in 1..3 |-> IF l <= Len(m.networks[j + 1].source)
                        THEN baseSpeciesIndex(m)[m.networks[j + 1].source[l]]
                        ELSE -1]]

baseNetworkLeakCoefficients(m) ==
    [j \in 0..(Len(m.networks) - 1) |-> m.networks[j + 1].coefficient]

\* numpy.sum(y[:numCore])
SumCore(y, numCore) == SumTo(y, numCore)

\* IdealGasVolume with the bug of exchanging temperature and pressure
IdealGasVolumeSwapped(temp, pres, y, numCore) ==
    RDiv(RMul(RMul(IntR(R), pres), SumCore(y, numCore)), temp)

\* the ideal-gas volume, constants.R * T * numpy.sum(y[:numCore]) / P
IdealGasVolume(temp, pres, y, numCore) ==
    RDiv(RMul(RMul(IntR(R), temp), SumCore(y, numCore)), pres)

\* InitialMoles with the bug of normalizing the supplied values to sum 1
InitialMolesNormalized(fractions, index, numCore) ==
    LET supplied == [i \in 0..(numCore - 1) |->
                        IF \E s \in DOMAIN fractions : index[s] = i
                        THEN IntR(fractions[(CHOOSE s \in DOMAIN fractions : index[s] = i)])
                        ELSE Zero]
    IN  [i \in 0..(numCore - 1) |-> RDiv(supplied[i], SumTo(supplied, numCore))]

\* set_initial_conditions, lines 277-279: y0[i] = moleFrac for every key
InitialMoles(fractions, index, numCore) ==
    [i \in 0..(numCore - 1) |->
        IF \E s \in DOMAIN fractions : index[s] = i
        THEN IntR(fractions[(CHOOSE s \in DOMAIN fractions : index[s] = i)])
        ELSE Zero]

\* InitialConcentrations with the bug of storing mole fractions
InitialConcentrationsAsFractions(y, vol, numCore) ==
    [j \in 0..(numCore - 1) |-> RDiv(y[j], SumCore(y, numCore))]

\* set_initial_conditions, lines 283-284
InitialConcentrations(y, vol, numCore) ==
    [j \in 0..(numCore - 1) |-> RDiv(y[j], vol)]

\* set_colliders: one scan of chain(coreReactions, edgeReactions)
EmptyTables ==
    [pdepColliderReactionIndices |-> << >>, pdepColliderKinetics |-> << >>,
     colliderEfficiencies |-> << >>, pdepSpecificColliderReactionIndices |-> << >>,
     pdepSpecificColliderKinetics |-> << >>, specificColliderSpecies |-> << >>]

ScanGeneric(tabs, rxn, j, numCore) ==
    IF rxn.kinetics.efficiencies # NoEfficiencies
    THEN [tabs EXCEPT
            !.pdepColliderReactionIndices = Append(@, j),
            !.pdepColliderKinetics = Append(@, rxn.kinetics),
            !.colliderEfficiencies =
                Append(@, getEffectiveColliderEfficiencies(rxn.kinetics, numCore))]
    ELSE tabs

\* ScanSpecific with the bug of an elif: no specific entry for a reaction that
\* got a generic one
ScanSpecificUnlessGeneric(tabs, rxn, j) ==
    IF rxn.specificCollider # NoneVal /\ rxn.kinetics.efficiencies = NoEfficiencies
    THEN [tabs EXCEPT
            !.pdepSpecificColliderReactionIndices = Append(@, j),
            !.pdepSpecificColliderKinetics = Append(@, rxn.kinetics),
            !.specificColliderSpecies = Append(@, rxn.specificCollider)]
    ELSE tabs

ScanSpecific(tabs, rxn, j) ==
    IF rxn.specificCollider # NoneVal
    THEN [tabs EXCEPT
            !.pdepSpecificColliderReactionIndices = Append(@, j),
            !.pdepSpecificColliderKinetics = Append(@, rxn.kinetics),
            !.specificColliderSpecies = Append(@, rxn.specificCollider)]
    ELSE tabs

RECURSIVE ScanColliders(_, _, _, _)
ScanColliders(rxns, n, numCore, tabs) ==
    IF n = 0 THEN tabs
    ELSE LET before == ScanColliders(rxns, n - 1, numCore, tabs)
             rxn == rxns[n - 1]
         IN  IF isPressureDependent(rxn.kinetics)
             THEN ScanSpecific(ScanGeneric(before, rxn, n - 1, numCore), rxn, n - 1)
             ELSE before

set_colliders(m) ==
    LET t == ScanColliders(allReactions(m), numReactions(m), Len(m.coreSpecies),
                           EmptyTables)
    IN  [pdepColliderReactionIndices |-> ToArray(t.pdepColliderReactionIndices),
         pdepColliderKinetics |-> ToArray(t.pdepColliderKinetics),
         colliderEfficiencies |-> ToArray(t.colliderEfficiencies),
         pdepSpecificColliderReactionIndices |->
             ToArray(t.pdepSpecificColliderReactionIndices),
         pdepSpecificColliderKinetics |-> ToArray(t.pdepSpecificColliderKinetics),
         specificColliderSpecies |-> ToArray(t.specificColliderSpecies)]

\* numpy.sum(efficiencies * y[:numCore] / numpy.sum(y[:numCore]))
WeightedFraction(eff, y, numCore) ==
    LET total == SumCore(y, numCore)
    IN  SumTo([k \in 0..(numCore - 1) |-> RDiv(RMul(eff[k], y[k]), total)], numCore)

\* calculate_effective_pressure(rxn), rxn being reaction j of the chain
RECURSIVE PeffLookup(_, _, _, _, _, _, _, _)
PeffLookup(i, j, rxn, pres, y, numCore, index, tabs) ==
    IF i >= Size(tabs.pdepColliderReactionIndices) THEN pres
    ELSE IF j = tabs.pdepColliderReactionIndices[i]
    THEN IF rxn.specificCollider = NoneVal
         THEN RMul(pres, WeightedFraction(tabs.colliderEfficiencies[i], y, numCore))
         ELSE RDiv(RMul(pres, y[index[rxn.specificCollider]]), SumCore(y, numCore))
    ELSE PeffLookup(i + 1, j, rxn, pres, y, numCore, index, tabs)

calculate_effective_pressure(j, rxn, pres, y, numCore, index, tabs) ==
    PeffLookup(0, j, rxn, pres, y, numCore, index, tabs)

\* generate_rate_coefficients: kf, Keq and kb of reactions 0..n-1
RECURSIVE generate_rate_coefficients(_, _, _, _, _, _, _, _, _)
generate_rate_coefficients(rxns, n, temp, pres, y, numCore, index, tabs, bufs) ==
    IF n = 0 THEN bufs
    ELSE LET b == generate_rate_coefficients(rxns, n - 1, temp, pres, y, numCore,
                                             index, tabs, bufs)
             j == n - 1
             rxn == rxns[j]
             Peff == calculate_effective_pressure(j, rxn, pres, y, numCore, index, tabs)
             k == getRateCoefficient(rxn.kinetics, temp, Peff)
         IN  IF rxn.reversible
             THEN [kf |-> [b.kf EXCEPT ![j] = k],
                   Keq |-> [b.Keq EXCEPT ![j] = rxn.Keq],
                   kb |-> [b.kb EXCEPT ![j] = RDiv(k, rxn.Keq)]]
             ELSE [b EXCEPT !.kf[j] = k]

\* the tables as residual and calculate_effective_pressure read them
Tables ==
    [pdepColliderReactionIndices |-> pdepColliderReactionIndices,
     pdepColliderKinetics |-> pdepColliderKinetics,
     colliderEfficiencies |-> colliderEfficiencies,
     pdepSpecificColliderReactionIndices |-> pdepSpecificColliderReactionIndices,
     pdepSpecificColliderKinetics |-> pdepSpecificColliderKinetics,
     specificColliderSpecies |-> specificColliderSpecies]

\* the keys of the initial mole fractions for which
\* ReactionSystem.get_species_index(spec) finds an index
IndexedKeys(fractions, index) == {spec \in DOMAIN fractions : spec \in DOMAIN index}

InitializeModel ==
    /\ pc = "converted"
    /\ LET nCore == Len(model.coreSpecies)
           nEdge == Len(model.edgeSpecies)
           nRxn == numReactions(model)
           index == baseSpeciesIndex(model)
           indexed == IndexedKeys(initialMoleFractions, index)
           moles == InitialMoles(initialMoleFractions, index, nCore)
           vol == IdealGasVolume(T, P, moles, nCore)
           tabs == set_colliders(model)
           bufs == generate_rate_coefficients(allReactions(model), nRxn, T, P, moles,
                       nCore, index, tabs,
                       [kf |-> Zeros(nRxn), kb |-> Zeros(nRxn), Keq |-> Zeros(nRxn)])
       IN  /\ numCoreSpecies' = nCore
           /\ numCoreReactions' = Len(model.coreReactions)
           /\ speciesIndex' = index
           /\ reactantIndices' = baseReactantIndices(model)
           /\ productIndices' = baseProductIndices(model)
           /\ coreSpeciesRates' = Zeros(nCore)
           /\ coreSpeciesProductionRates' = Zeros(nCore)
           /\ coreSpeciesConsumptionRates' = Zeros(nCore)
           /\ coreReactionRates' = Zeros(Len(model.coreReactions))
           /\ edgeSpeciesRates' = Zeros(nEdge)
           /\ edgeReactionRates' = Zeros(Len(model.edgeReactions))
           /\ networkLeakRates' = Zeros(Len(model.networks))
           /\ IF indexed = DOMAIN initialMoleFractions
              THEN /\ y0' = moles
                   /\ V' = vol
                   /\ coreSpeciesConcentrations' =
                          InitialConcentrations(moles, vol, nCore)
                   /\ pdepColliderReactionIndices' = tabs.pdepColliderReactionIndices
                   /\ pdepColliderKinetics' = tabs.pdepColliderKinetics
                   /\ colliderEfficiencies' = tabs.colliderEfficiencies
                   /\ pdepSpecificColliderReactionIndices' =
                          tabs.pdepSpecificColliderReactionIndices
                   /\ pdepSpecificColliderKinetics' =
                          tabs.pdepSpecificColliderKinetics
                   /\ specificColliderSpecies' = tabs.specificColliderSpecies
                   /\ networkIndices' = baseNetworkIndices(model)
                   /\ networkLeakCoefficients' = baseNetworkLeakCoefficients(model)
                   /\ kf' = bufs.kf
                   /\ kb' = bufs.kb
                   /\ Keq' = bufs.Keq
                   /\ generated' = [kf |-> bufs.kf, kb |-> bufs.kb]
                   /\ pc' = "initialized"
                   /\ call' = [op |-> "initializeModel", raised |-> FALSE,
                               error |-> "none"]
              \* set_initial_conditions raises at the first key without an
              \* index (line 278); the keys the dictionary iterated before it
              \* (any of the indexed ones) have been written to y0, and
              \* nothing after line 278 has run
              ELSE /\ \E written \in SUBSET indexed :
                        y0' = InitialMoles([spec \in written |->
                                               initialMoleFractions[spec]],
                                           index, nCore)
                   /\ coreSpeciesConcentrations' = Zeros(nCore)
                   /\ kf' = Zeros(nRxn)
                   /\ kb' = Zeros(nRxn)
                   /\ Keq' = Zeros(nRxn)
                   /\ pc' = "failed"
                   /\ call' = [op |-> "initializeModel", raised |-> TRUE,
                               error |-> "KeyError"]
                   /\ UNCHANGED <<V, colliderTables, networkIndices,
                                  networkLeakCoefficients, generated>>
    /\ UNCHANGED <<model, reactorState, sticking>>

\* DivisionRaises with the bug of compiling the module with cdivision=True,
\* as surface.pyx is: a zero divisor gives inf or nan and the store goes ahead
DivisionRaisesNever(divisor) == FALSE

(***************************************************************************)
(* residual(t, y, dydt)                                                    *)
(***************************************************************************)
\* kr[j] = kf[j] / equilibriumConstants[j] on C doubles (lines 330, 343) and
\* C[j] = y[j] / V (line 367): the module sets no cdivision directive, so
\* Cython checks the divisor and raises ZeroDivisionError when it is 0.
DivisionRaises(divisor) == divisor = Zero

\* lines 329-330 and 342-343: one entry of a collider table, reaction j
RefreshEntry(st, j, kin, Peff) ==
    LET k == getRateCoefficient(kin, T, Peff)
    IN  IF DivisionRaises(Keq[j])
        THEN [st EXCEPT !.kf[j] = k, !.raised = TRUE]
        ELSE [st EXCEPT !.kf[j] = k, !.kb[j] = RDiv(k, Keq[j])]

\* GenericPeff with the bug of reading the initial moles y0
GenericPeffInitialMoles(i, y) ==
    RMul(P, WeightedFraction(colliderEfficiencies[i], y0, numCoreSpecies))

\* line 327
GenericPeff(i, y) ==
    RMul(P, WeightedFraction(colliderEfficiencies[i], y, numCoreSpecies))

\* line 340
SpecificPeff(i, y) ==
    RDiv(RMul(P, y[speciesIndex[specificColliderSpecies[i]]]),
         SumCore(y, numCoreSpecies))

\* RefreshGeneric with the bug of using the table position as the reaction
\* index
RECURSIVE RefreshGenericByPosition(_, _, _)
RefreshGenericByPosition(n, y, st) ==
    IF n = 0 THEN st
    ELSE LET before == RefreshGenericByPosition(n - 1, y, st)
         IN  IF before.raised THEN before
             ELSE RefreshEntry(before, n - 1,
                               pdepColliderKinetics[n - 1], GenericPeff(n - 1, y))

\* lines 318-330: entries 0..n-1 of the generic-collider table
RECURSIVE RefreshGeneric(_, _, _)
RefreshGeneric(n, y, st) ==
    IF n = 0 THEN st
    ELSE LET before == RefreshGeneric(n - 1, y, st)
         IN  IF before.raised THEN before
             ELSE RefreshEntry(before, pdepColliderReactionIndices[n - 1],
                               pdepColliderKinetics[n - 1], GenericPeff(n - 1, y))

\* lines 331-343: entries 0..n-1 of the specific-collider table
RECURSIVE RefreshSpecific(_, _, _)
RefreshSpecific(n, y, st) ==
    IF n = 0 THEN st
    ELSE LET before == RefreshSpecific(n - 1, y, st)
         IN  IF before.raised THEN before
             ELSE RefreshEntry(before, pdepSpecificColliderReactionIndices[n - 1],
                               pdepSpecificColliderKinetics[n - 1],
                               SpecificPeff(n - 1, y))

\* SlotProduct with the bug of leaving out the third slot
SlotProductOfTwo(k, slots, C) ==
    IF slots[2] = -1 THEN RMul(k, C[slots[1]])
    ELSE RMul(RMul(k, C[slots[1]]), C[slots[2]])

\* lines 371-379, 380-388 and 455-461: k times the concentrations of the
\* one, two or three slots in use
SlotProduct(k, slots, C) ==
    IF slots[2] = -1 THEN RMul(k, C[slots[1]])
    ELSE IF slots[3] = -1 THEN RMul(RMul(k, C[slots[1]]), C[slots[2]])
    ELSE RMul(RMul(RMul(k, C[slots[1]]), C[slots[2]]), C[slots[3]])

\* DirectionRate with the bug of leaving the edge species out of the product
\* instead of setting the rate to 0
DirectionRateOverCoreSlots(k, slots, C, numCore) ==
    LET factor(s) == IF s >= 0 /\ s < numCore THEN C[s] ELSE IntR(1)
    IN  RMul(RMul(RMul(k, factor(slots[1])), factor(slots[2])), factor(slots[3]))

\* lines 372-379 and 381-388: 0 for a direction with an edge species
DirectionRate(k, slots, C, numCore) ==
    IF slots[1] >= numCore \/ slots[2] >= numCore \/ slots[3] >= numCore
    THEN Zero
    ELSE SlotProduct(k, slots, C)

\* NetRate with the bug of adding the reverse rate
NetRateAdding(f, r) == RAdd(f, r)

\* line 390: reactionRate = fReactionRate - revReactionRate
NetRate(f, r) == RSub(f, r)

\* the slots the accumulation visits: the first, the second unless it is -1,
\* the third unless the second or the third is -1
Participants(slots) ==
    IF slots[2] = -1 THEN <<slots[1]>>
    ELSE IF slots[3] = -1 THEN <<slots[1], slots[2]>>
    ELSE slots

\* arr[s] += amount for each s of the sequence who, in order
RECURSIVE AddAt(_, _, _)
AddAt(arr, who, amount) ==
    IF who = << >> THEN arr
    ELSE AddAt([arr EXCEPT ![Head(who)] = RAdd(@, amount)], Tail(who), amount)

\* lines 437-452: only the edge species among who, shifted by numCore
EdgeOnly(who, numCore) ==
    LET edge == SelectSeq(who, LAMBDA s : s >= numCore)
    IN  [i \in 1..Len(edge) |-> edge[i] - numCore]

\* CoreAccumulate with the bug of a copied line: the products are charged the
\* forward rate as consumption and the reverse rate as production
CoreAccumulateCopied(acc, j, f, r) ==
    LET rate == NetRate(f, r)
        re == Participants(reactantIndices[j])
        pr == Participants(productIndices[j])
    IN  [acc EXCEPT
            !.coreReactionRates[j] = rate,
            !.coreSpeciesRates = AddAt(AddAt(@, re, RNeg(rate)), pr, rate),
            !.coreSpeciesConsumptionRates = AddAt(AddAt(@, re, f), pr, f),
            !.coreSpeciesProductionRates = AddAt(AddAt(@, re, r), pr, r)]

\* lines 393-427: a core reaction's contribution
CoreAccumulate(acc, j, f, r) ==
    LET rate == NetRate(f, r)
        re == Participants(reactantIndices[j])
        pr == Participants(productIndices[j])
    IN  [acc EXCEPT
            !.coreReactionRates[j] = rate,
            !.coreSpeciesRates = AddAt(AddAt(@, re, RNeg(rate)), pr, rate),
            !.coreSpeciesConsumptionRates = AddAt(AddAt(@, re, f), pr, r),
            !.coreSpeciesProductionRates = AddAt(AddAt(@, re, r), pr, f)]

\* EdgeAccumulate with the bug of also charging the core species of the
\* edge reaction
EdgeAccumulateIntoCore(acc, j, f, r) ==
    LET rate == NetRate(f, r)
        core(who) == SelectSeq(who, LAMBDA s : s < numCoreSpecies)
        re == Participants(reactantIndices[j])
        pr == Participants(productIndices[j])
    IN  [acc EXCEPT
            !.edgeReactionRates[j - numCoreReactions] = rate,
            !.edgeSpeciesRates =
                AddAt(AddAt(@, EdgeOnly(re, numCoreSpecies), RNeg(rate)),
                      EdgeOnly(pr, numCoreSpecies), rate),
            !.coreSpeciesRates = AddAt(AddAt(@, core(re), RNeg(rate)), core(pr), rate)]

\* lines 429-452: an edge reaction's contribution
EdgeAccumulate(acc, j, f, r) ==
    LET rate == NetRate(f, r)
        re == EdgeOnly(Participants(reactantIndices[j]), numCoreSpecies)
        pr == EdgeOnly(Participants(productIndices[j]), numCoreSpecies)
    IN  [acc EXCEPT
            !.edgeReactionRates[j - numCoreReactions] = rate,
            !.edgeSpeciesRates = AddAt(AddAt(@, re, RNeg(rate)), pr, rate)]

\* lines 371-452: one pass of the loop over the reactions, for reaction j
ReactionStep(acc, j, kfs, krs, C) ==
    LET f == DirectionRate(kfs[j], reactantIndices[j], C, numCoreSpecies)
        r == DirectionRate(krs[j], productIndices[j], C, numCoreSpecies)
    IN  IF j < numCoreReactions
        THEN CoreAccumulate(acc, j, f, r)
        ELSE EdgeAccumulate(acc, j, f, r)

RECURSIVE ReactionLoop(_, _, _, _, _)
ReactionLoop(n, acc, kfs, krs, C) ==
    IF n = 0 THEN acc
    ELSE ReactionStep(ReactionLoop(n - 1, acc, kfs, krs, C), n - 1, kfs, krs, C)

\* ZeroBuffers with the bug of reusing the stored arrays instead of
\* allocating zeroed ones
ZeroBuffersCarriedOver ==
    [coreSpeciesRates |-> coreSpeciesRates,
     coreReactionRates |-> coreReactionRates,
     coreSpeciesConsumptionRates |-> coreSpeciesConsumptionRates,
     coreSpeciesProductionRates |-> coreSpeciesProductionRates,
     edgeSpeciesRates |-> edgeSpeciesRates,
     edgeReactionRates |-> edgeReactionRates]

\* lines 349-358: the fresh arrays of one call
ZeroBuffers ==
    [coreSpeciesRates |-> Zeros(Size(coreSpeciesRates)),
     coreReactionRates |-> Zeros(Size(coreReactionRates)),
     coreSpeciesConsumptionRates |-> Zeros(Size(coreSpeciesConsumptionRates)),
     coreSpeciesProductionRates |-> Zeros(Size(coreSpeciesProductionRates)),
     edgeSpeciesRates |-> Zeros(Size(edgeSpeciesRates)),
     edgeReactionRates |-> Zeros(Size(edgeReactionRates))]

\* NetworkLeakRates with the bug of a copied line, k = kf[j]
NetworkLeakRatesWithForwardCoefficient(C) ==
    [j \in DOMAIN networkIndices |-> SlotProduct(kf[j], networkIndices[j], C)]

\* lines 454-462
NetworkLeakRates(C) ==
    [j \in DOMAIN networkIndices |->
        SlotProduct(networkLeakCoefficients[j], networkIndices[j], C)]

\* species.label.replace('_obs', '')
StripMarker(label) == SelectSeq(label, LAMBDA tok : tok # Marker)

\* '_obs' in species.label
HasMarker(label) == \E i \in 1..Len(label) : label[i] = Marker

\* self.speciesIndex.keys()[self.speciesIndex.values().index(j)]
SpeciesAt(j) == CHOOSE s \in DOMAIN speciesIndex : speciesIndex[s] = j

\* lines 469-473: the species the sampling of core species j reads from:
\* those carrying the stripped label whose index is inside C
SamplingSources(j, C) ==
    { s \in DOMAIN speciesIndex :
        /\ HasMarker(SpeciesAt(j).label)
        /\ s.label = StripMarker(SpeciesAt(j).label)
        /\ ~(speciesIndex[s] > Size(C) - 1) }

\* SamplingLoop with the bug of adding the sampling terms to what the
\* reactions accumulated
RECURSIVE SamplingLoopAdding(_, _, _)
SamplingLoopAdding(n, acc, C) ==
    IF n = 0 THEN acc
    ELSE LET before == SamplingLoopAdding(n - 1, acc, C)
             j == n - 1
         IN  IF SamplingSources(j, C) = {} THEN before
             ELSE LET real == speciesIndex[CHOOSE s \in SamplingSources(j, C) : TRUE]
                  IN  [before EXCEPT
                        !.coreSpeciesRates[j] =
                            RAdd(@, RSub(RMul(k_sampling, C[real]),
                                         RMul(k_sampling, C[j]))),
                        !.coreSpeciesConsumptionRates[j] =
                            RAdd(@, RMul(k_sampling, C[j])),
                        !.coreSpeciesProductionRates[j] =
                            RAdd(@, RMul(k_sampling, C[real]))]

\* lines 466-478
RECURSIVE SamplingLoop(_, _, _)
SamplingLoop(n, acc, C) ==
    IF n = 0 THEN acc
    ELSE LET before == SamplingLoop(n - 1, acc, C)
             j == n - 1
         IN  IF SamplingSources(j, C) = {} THEN before
             ELSE LET real == speciesIndex[CHOOSE s \in SamplingSources(j, C) : TRUE]
                  IN  [before EXCEPT
                        !.coreSpeciesRates[j] =
                            RSub(RMul(k_sampling, C[real]), RMul(k_sampling, C[j])),
                        !.coreSpeciesConsumptionRates[j] = RMul(k_sampling, C[j]),
                        !.coreSpeciesProductionRates[j] = RMul(k_sampling, C[real])]

\* Delta with the bug of adding the supplied derivative
DeltaPlusDerivative(rates, vol, dydt) ==
    [i \in DOMAIN rates |-> RAdd(RMul(rates[i], vol), dydt[i])]

\* lines 489-491
Delta(rates, vol, dydt) == [i \in DOMAIN rates |-> RSub(RMul(rates[i], vol), dydt[i])]

\* Concentrations with the bug of dividing by the stored volume, that of the
\* previous call
ConcentrationsAtStoredVolume(y, vol) ==
    [j \in 0..(numCoreSpecies - 1) |-> RDiv(y[j], V)]

\* lines 366-368
Concentrations(y, vol) == [j \in 0..(numCoreSpecies - 1) |-> RDiv(y[j], vol)]

\* the fields of the reactor that residual rewrites
Fields ==
    [kf |-> kf, kb |-> kb, V |-> V,
     buffers |->
        [coreSpeciesConcentrations |-> coreSpeciesConcentrations,
         coreSpeciesRates |-> coreSpeciesRates,
         coreSpeciesProductionRates |-> coreSpeciesProductionRates,
         coreSpeciesConsumptionRates |-> coreSpeciesConsumptionRates,
         coreReactionRates |-> coreReactionRates,
         edgeSpeciesRates |-> edgeSpeciesRates,
         edgeReactionRates |-> edgeReactionRates,
         networkLeakRates |-> networkLeakRates]]

\* The whole of residual on a reactor whose rewritten fields are self: what
\* it leaves in kf, kb, V and the rate buffers, and what it returns or that
\* it raised.
residualOn(self, y, dydt) ==
    LET numCore == Size(coreSpeciesRates)
        g == RefreshGeneric(Size(pdepColliderReactionIndices), y,
                            [kf |-> self.kf, kb |-> self.kb, raised |-> FALSE])
        s == IF g.raised THEN g
             ELSE RefreshSpecific(Size(pdepSpecificColliderReactionIndices), y, g)
        \* what the generic refresh wrote, entry by entry (history only)
        generic == IF g.raised THEN << >>
                   ELSE [i \in DOMAIN pdepColliderReactionIndices |->
                            [kf |-> g.kf[pdepColliderReactionIndices[i]],
                             kb |-> g.kb[pdepColliderReactionIndices[i]]]]
        vol == IdealGasVolume(T, P, y, numCore)
        C == Concentrations(y, vol)
        rx == ReactionLoop(Size(reactantIndices), ZeroBuffers, s.kf, s.kb, C)
        out == SamplingLoop(numCore, rx, C)
    IN  IF s.raised
        THEN [raised |-> TRUE, delta |-> << >>, kf |-> s.kf, kb |-> s.kb, V |-> self.V,
              genericDone |-> ~g.raised, generic |-> generic,
              refreshed |-> ~s.raised,
              buffers |-> self.buffers]
        ELSE IF numCore > 0 /\ DivisionRaises(vol)
        THEN [raised |-> TRUE, delta |-> << >>, kf |-> s.kf, kb |-> s.kb, V |-> vol,
              genericDone |-> ~g.raised, generic |-> generic,
              refreshed |-> ~s.raised,
              buffers |-> self.buffers]
        ELSE [raised |-> FALSE,
              delta |-> Delta(out.coreSpeciesRates, vol, dydt),
              kf |-> s.kf, kb |-> s.kb, V |-> vol,
              genericDone |-> ~g.raised, generic |-> generic,
              refreshed |-> ~s.raised,
              buffers |->
                [coreSpeciesConcentrations |-> C,
                 coreSpeciesRates |-> out.coreSpeciesRates,
                 coreSpeciesProductionRates |-> out.coreSpeciesProductionRates,
                 coreSpeciesConsumptionRates |-> out.coreSpeciesConsumptionRates,
                 coreReactionRates |-> out.coreReactionRates,
                 edgeSpeciesRates |-> out.edgeSpeciesRates,
                 edgeReactionRates |-> out.edgeReactionRates,
                 networkLeakRates |-> NetworkLeakRates(C)]]

\* residual(t, y, dydt) on the reactor as it is
residual(y, dydt) == residualOn(Fields, y, dydt)

\* the vectors the integrator supplies
MoleVectors(numCore) == [0..(numCore - 1) -> {IntR(v) : v \in MoleValues}]

DerivativeVectors(numCore) ==
    {Zeros(numCore), [i \in 0..(numCore - 1) |-> IntR(i + 1)]}

\* Residual with the bug of a refresh that pops the kinetics off the lists
ResidualConsumingTables ==
    /\ pc = "initialized"
    /\ \E y \in MoleVectors(numCoreSpecies), dydt \in DerivativeVectors(numCoreSpecies) :
        \E res \in {residual(y, dydt)} :
            /\ kf' = res.kf
            /\ kb' = res.kb
            /\ V' = res.V
            /\ coreSpeciesConcentrations' = res.buffers.coreSpeciesConcentrations
            /\ coreSpeciesRates' = res.buffers.coreSpeciesRates
            /\ coreSpeciesProductionRates' = res.buffers.coreSpeciesProductionRates
            /\ coreSpeciesConsumptionRates' = res.buffers.coreSpeciesConsumptionRates
            /\ coreReactionRates' = res.buffers.coreReactionRates
            /\ edgeSpeciesRates' = res.buffers.edgeSpeciesRates
            /\ edgeReactionRates' = res.buffers.edgeReactionRates
            /\ networkLeakRates' = res.buffers.networkLeakRates
            /\ call' = [op |-> "residual", y |-> y, dydt |-> dydt,
                        repeat |-> (/\ call.op = "residual"
                                    /\ call.y = y
                                    /\ call.dydt = dydt),
                        raised |-> res.raised,
                        error |-> IF res.raised THEN "ZeroDivisionError" ELSE "none",
                        delta |-> res.delta,
                        genericDone |-> res.genericDone, generic |-> res.generic,
                        refreshed |-> res.refreshed]
    /\ pdepColliderKinetics' = << >>
    /\ pdepSpecificColliderKinetics' = << >>
    /\ UNCHANGED <<pc, model, reactorState, baseArrays, y0, Keq,
                   pdepColliderReactionIndices, colliderEfficiencies,
                   pdepSpecificColliderReactionIndices, specificColliderSpecies,
                   generated, sticking>>

Residual ==
    /\ pc = "initialized"
    /\ \E y \in MoleVectors(numCoreSpecies), dydt \in DerivativeVectors(numCoreSpecies) :
        \E res \in {residual(y, dydt)} :
            /\ kf' = res.kf
            /\ kb' = res.kb
            /\ V' = res.V
            /\ coreSpeciesConcentrations' = res.buffers.coreSpeciesConcentrations
            /\ coreSpeciesRates' = res.buffers.coreSpeciesRates
            /\ coreSpeciesProductionRates' = res.buffers.coreSpeciesProductionRates
            /\ coreSpeciesConsumptionRates' = res.buffers.coreSpeciesConsumptionRates
            /\ coreReactionRates' = res.buffers.coreReactionRates
            /\ edgeSpeciesRates' = res.buffers.edgeSpeciesRates
            /\ edgeReactionRates' = res.buffers.edgeReactionRates
            /\ networkLeakRates' = res.buffers.networkLeakRates
            /\ call' = [op |-> "residual", y |-> y, dydt |-> dydt,
                        repeat |-> (/\ call.op = "residual"
                                    /\ call.y = y
                                    /\ call.dydt = dydt),
                        raised |-> res.raised,
                        error |-> IF res.raised THEN "ZeroDivisionError" ELSE "none",
                        delta |-> res.delta,
                        genericDone |-> res.genericDone, generic |-> res.generic,
                        refreshed |-> res.refreshed]
    /\ UNCHANGED <<pc, model, reactorState, baseArrays, y0, Keq,
                   colliderTables, generated, sticking>>

\* calculate_effective_pressure(rxn).  The reactor calls it from
\* generate_rate_coefficients only; a caller may repeat the call on the
\* initialized reactor before the integration starts.  It divides numpy
\* values, so it never raises.
CalculateEffectivePressure ==
    /\ pc = "initialized"
    /\ call.op \in {"initializeModel", "calculate_effective_pressure"}
    /\ \E j \in DOMAIN reactantIndices :
        call' = [op |-> "calculate_effective_pressure", rxn |-> j, raised |-> FALSE,
                 error |-> "none",
                 result |-> calculate_effective_pressure(j, allReactions(model)[j],
                                P, y0, numCoreSpecies, speciesIndex, Tables)]
    /\ UNCHANGED <<pc, model, reactorState, V, baseArrays, y0, kf, kb,
                   Keq, rateBuffers, colliderTables, generated, sticking>>

(***************************************************************************)
(* Pickling: __reduce__ and the reconstruction pickle performs with it     *)
(***************************************************************************)
\* the termination criteria the constructor hands to ReactionSystem.__init__
termination == <<"TerminationTime">>

\* the argument tuple of __reduce__, line 136
reduceArgs == <<T, P, initialMoleFractions, termination>>

\* __init__(T, P, initialMoleFractions, k_sampling, constantSpeciesList,
\* termination, sensitiveSpecies=None, sensitivityThreshold=1e-3) called with
\* positional arguments: six are required, eight accepted
construct(args) ==
    IF Len(args) < 6 \/ Len(args) > 8
    THEN [raised |-> TRUE, error |-> "TypeError"]
    ELSE [raised |-> FALSE, error |-> "none",
          T |-> args[1], P |-> args[2], initialMoleFractions |-> args[3],
          k_sampling |-> args[4], constantSpeciesList |-> args[5],
          termination |-> args[6], V |-> Zero, colliderTables |-> "None"]

\* pickle.loads(pickle.dumps(reactor)): the class is called with the tuple
\* of __reduce__.  The reactor itself is only read.
PickleRoundTrip ==
    /\ \/ pc \in {"constructed", "converted"}
       \/ pc = "initialized" /\ call.op = "initializeModel"
    /\ call' = [op |-> "pickle", args |-> reduceArgs, result |-> construct(reduceArgs)]
    /\ UNCHANGED <<pc, model, reactorState, V, baseArrays, y0, kf, kb,
                   Keq, rateBuffers, colliderTables, generated, sticking>>

Next ==
    \/ PickleRoundTrip
    \/ ConvertInitialKeys
    \/ InitializeModel
    \/ CalculateEffectivePressure
    \/ Residual

Spec == Init /\ [][Next]_vars

(***************************************************************************)
(* initializeModel step by step (lines 164-186)                            *)
(*                                                                         *)
(* pc names the step that completed last; call.steps lists the steps       *)
(* entered so far.  The integrator evaluates residual on the initialized   *)
(* reactor.                                                                *)
(***************************************************************************)
SetupCall(step, raised, error) ==
    [op |-> "initializeModel", steps |-> Append(call.steps, step),
     raised |-> raised, error |-> error]

\* ReactionSystem.initializeModel (lines 164-167): the index maps and the
\* arrays of the base class
BaseInitializeModel ==
    /\ pc = "converted"
    /\ pc' = "ReactionSystem.initializeModel"
    /\ LET nCore == Len(model.coreSpecies)
           nRxn == numReactions(model)
       IN  /\ numCoreSpecies' = nCore
           /\ numCoreReactions' = Len(model.coreReactions)
           /\ speciesIndex' = baseSpeciesIndex(model)
           /\ reactantIndices' = baseReactantIndices(model)
           /\ productIndices' = baseProductIndices(model)
           /\ kf' = Zeros(nRxn)
           /\ kb' = Zeros(nRxn)
           /\ Keq' = Zeros(nRxn)
           /\ coreSpeciesConcentrations' = Zeros(nCore)
           /\ coreSpeciesRates' = Zeros(nCore)
           /\ coreSpeciesProductionRates' = Zeros(nCore)
           /\ coreSpeciesConsumptionRates' = Zeros(nCore)
           /\ coreReactionRates' = Zeros(Len(model.coreReactions))
           /\ edgeSpeciesRates' = Zeros(Len(model.edgeSpecies))
           /\ edgeReactionRates' = Zeros(Len(model.edgeReactions))
           /\ networkLeakRates' = Zeros(Len(model.networks))
    /\ call' = [op |-> "initializeModel", steps |-> <<"ReactionSystem.initializeModel">>,
                raised |-> FALSE, error |-> "none"]
    /\ UNCHANGED <<model, reactorState, V, networkIndices,
                   networkLeakCoefficients, y0, colliderTables, generated, sticking>>

\* self.set_initial_conditions() (line 170)
SetInitialConditions ==
    /\ pc = "ReactionSystem.initializeModel"
    /\ LET indexed == IndexedKeys(initialMoleFractions, speciesIndex)
           moles == InitialMoles(initialMoleFractions, speciesIndex, numCoreSpecies)
           vol == IdealGasVolume(T, P, moles, numCoreSpecies)
       IN  IF indexed = DOMAIN initialMoleFractions
           THEN /\ y0' = moles
                /\ V' = vol
                /\ coreSpeciesConcentrations' =
                       InitialConcentrations(moles, vol, numCoreSpecies)
                /\ pc' = "set_initial_conditions"
                /\ call' = SetupCall("set_initial_conditions", FALSE, "none")
           ELSE /\ \E written \in SUBSET indexed :
                     y0' = InitialMoles([spec \in written |-> initialMoleFractions[spec]],
                                        speciesIndex, numCoreSpecies)
                /\ pc' = "failed"
                /\ call' = SetupCall("set_initial_conditions", TRUE, "KeyError")
                /\ UNCHANGED <<V, coreSpeciesConcentrations>>
    /\ UNCHANGED <<model, reactorState, baseArrays, kf, kb, Keq,
                   coreSpeciesRates, coreSpeciesProductionRates,
                   coreSpeciesConsumptionRates, coreReactionRates, edgeSpeciesRates,
                   edgeReactionRates, networkLeakRates, colliderTables, generated,
                   sticking>>

\* self.set_colliders(coreReactions, edgeReactions, coreSpecies) (line 176)
SetColliders ==
    /\ pc = "set_initial_conditions"
    /\ pc' = "set_colliders"
    /\ LET tabs == set_colliders(model)
       IN  /\ pdepColliderReactionIndices' = tabs.pdepColliderReactionIndices
           /\ pdepColliderKinetics' = tabs.pdepColliderKinetics
           /\ colliderEfficiencies' = tabs.colliderEfficiencies
           /\ pdepSpecificColliderReactionIndices' =
                  tabs.pdepSpecificColliderReactionIndices
           /\ pdepSpecificColliderKinetics' = tabs.pdepSpecificColliderKinetics
           /\ specificColliderSpecies' = tabs.specificColliderSpecies
    /\ call' = SetupCall("set_colliders", FALSE, "none")
    /\ UNCHANGED <<model, reactorState, V, baseArrays, y0, kf, kb, Keq,
                   rateBuffers, generated, sticking>>

\* ReactionSystem.compute_network_variables(self, pdepNetworks) (line 178)
ComputeNetworkVariables ==
    /\ pc = "set_colliders"
    /\ pc' = "compute_network_variables"
    /\ networkIndices' = baseNetworkIndices(model)
    /\ networkLeakCoefficients' = baseNetworkLeakCoefficients(model)
    /\ call' = SetupCall("compute_network_variables", FALSE, "none")
    /\ UNCHANGED <<model, reactorState, V, numCoreSpecies,
                   numCoreReactions, speciesIndex, reactantIndices, productIndices,
                   y0, kf, kb, Keq, rateBuffers, colliderTables, generated, sticking>>

\* what can end generate_rate_coefficients on a reactor whose collider
\* fields are still None: AttributeError (a build with nonecheck), TypeError
\* (None[i] at line 205 after a garbage loop bound) or the end of the process
NoneReadFailures == {"AttributeError", "TypeError", "crash"}

\* the effect of generate_rate_coefficients where it is called.
\* calculate_effective_pressure reads pdepColliderReactionIndices.shape[0]
\* (line 204) of a field declared numpy.ndarray: on None, with nonecheck off
\* (the default, the file sets no directive), this is a read through the
\* None object, undefined behaviour.  Any number n of reactions may get
\* through it with a loop bound that skips the loop (Peff = P, line 213)
\* before the call fails in one of NoneReadFailures, or all of them may.
GenerateRateCoefficientsCalled ==
    IF pdepColliderReactionIndices = NoneTable
    THEN \E n \in 0..numReactions(model) :
            LET skipped == [Tables EXCEPT !.pdepColliderReactionIndices = << >>]
                bufs == generate_rate_coefficients(allReactions(model), n, T, P, y0,
                            numCoreSpecies, speciesIndex, skipped,
                            [kf |-> kf, kb |-> kb, Keq |-> Keq])
            IN  /\ kf' = bufs.kf
                /\ kb' = bufs.kb
                /\ Keq' = bufs.Keq
                /\ IF n = numReactions(model)
                   THEN /\ generated' = [kf |-> bufs.kf, kb |-> bufs.kb]
                        /\ pc' = "generate_rate_coefficients"
                        /\ call' = SetupCall("generate_rate_coefficients", FALSE, "none")
                   ELSE \E failure \in NoneReadFailures :
                            /\ pc' = IF failure = "crash" THEN "crashed" ELSE "failed"
                            /\ call' = SetupCall("generate_rate_coefficients", TRUE,
                                                 failure)
                            /\ UNCHANGED generated
    ELSE LET bufs == generate_rate_coefficients(allReactions(model),
                         numReactions(model), T, P, y0, numCoreSpecies, speciesIndex,
                         Tables, [kf |-> kf, kb |-> kb, Keq |-> Keq])
         IN  /\ kf' = bufs.kf
             /\ kb' = bufs.kb
             /\ Keq' = bufs.Keq
             /\ generated' = [kf |-> bufs.kf, kb |-> bufs.kb]
             /\ pc' = "generate_rate_coefficients"
             /\ call' = SetupCall("generate_rate_coefficients", FALSE, "none")

\* GenerateRateCoefficients with the bug of running right after
\* set_initial_conditions, before set_colliders
GenerateRateCoefficientsBeforeColliders ==
    /\ pc = "set_initial_conditions"
    /\ GenerateRateCoefficientsCalled
    /\ UNCHANGED <<model, reactorState, V, baseArrays, y0, rateBuffers,
                   colliderTables, sticking>>

\* self.generate_rate_coefficients(coreReactions, edgeReactions) (line 181)
GenerateRateCoefficients ==
    /\ pc = "compute_network_variables"
    /\ GenerateRateCoefficientsCalled
    /\ UNCHANGED <<model, reactorState, V, baseArrays, y0, rateBuffers,
                   colliderTables, sticking>>

\* ReactionSystem.set_initial_derivative(self) (line 183)
SetInitialDerivative ==
    /\ pc = "generate_rate_coefficients"
    /\ pc' = "set_initial_derivative"
    /\ call' = SetupCall("set_initial_derivative", FALSE, "none")
    /\ UNCHANGED <<model, reactorState, V, baseArrays, y0, kf, kb, Keq,
                   rateBuffers, colliderTables, generated, sticking>>

\* ReactionSystem.initialize_solver(self) (line 185), the last statement of
\* initializeModel
InitializeSolver ==
    /\ pc = "set_initial_derivative"
    /\ pc' = "initialized"
    /\ call' = SetupCall("initialize_solver", FALSE, "none")
    /\ UNCHANGED <<model, reactorState, V, baseArrays, y0, kf, kb, Keq,
                   rateBuffers, colliderTables, generated, sticking>>

NextSetup ==
    \/ ConvertInitialKeys
    \/ BaseInitializeModel
    \/ SetInitialConditions
    \/ SetColliders
    \/ ComputeNetworkVariables
    \/ GenerateRateCoefficients
    \/ SetInitialDerivative
    \/ InitializeSolver
    \/ Residual

SpecSetup == Init /\ [][NextSetup]_vars

(***************************************************************************)
(* Sticking coefficients (rmgpy/kinetics/surface.pyx)                      *)
(*                                                                         *)
(* Energies are integers in units of R * ln(2) kelvin, so that             *)
(* exp(-Ea / (R * T)) is the rational 2^(-Ea / T) whenever T divides Ea.   *)
(***************************************************************************)
RECURSIVE RPow(_, _)
RPow(base, n) ==
    IF n = 0 THEN IntR(1)
    ELSE IF n < 0 THEN RDiv(IntR(1), RPow(base, -n))
    ELSE RMul(base, RPow(base, n - 1))

\* exp(-Ea / (constants.R * T))
Boltzmann(Ea, temp) == RPow(IntR(2), -(Ea \div temp))

\* min(stickingCoefficient, 1.0) with the bug of not clamping
ClampMissing(s) == s

\* min(stickingCoefficient, 1.0), lines 132 and 311
Clamp(s) == IF RLt(IntR(1), s) THEN IntR(1) ELSE s

\* getStickingCoefficient with the bug of clamping a negative value to 0
\* instead of raising
getStickingCoefficientClampingBelow(A, n, Ea, T0, temp) ==
    LET raw == RMul(RMul(A, RPow(RDiv(IntR(temp), IntR(T0)), n)), Boltzmann(Ea, temp))
    IN  IF RLt(raw, Zero)
        THEN [raw |-> raw, raised |-> FALSE, error |-> "none", result |-> Zero]
        ELSE [raw |-> raw, raised |-> FALSE, error |-> "none", result |-> Clamp(raw)]

\* StickingCoefficient.getStickingCoefficient(T)
getStickingCoefficient(A, n, Ea, T0, temp) ==
    LET raw == RMul(RMul(A, RPow(RDiv(IntR(temp), IntR(T0)), n)), Boltzmann(Ea, temp))
    IN  IF RLt(raw, Zero)
        THEN [raw |-> raw, raised |-> TRUE, error |-> "ValueError", result |-> NaN]
        ELSE [raw |-> raw, raised |-> FALSE, error |-> "none", result |-> Clamp(raw)]

\* StickingCoefficientBEP.getActivationEnergy(dHrxn); alpha is a rational
getActivationEnergy(alpha, E0, dHrxn) ==
    LET Ea == (alpha[1] * dHrxn) \div alpha[2] + E0
    IN  IF E0 > 0
        THEN IF dHrxn < 0 /\ Ea < 0 THEN 0
             ELSE IF dHrxn > 0 /\ Ea < dHrxn THEN dHrxn
             ELSE Ea
        ELSE Ea

\* StickingCoefficientBEP.getStickingCoefficient(T, dHrxn)
getStickingCoefficientBEP(A, n, alpha, E0, temp, dHrxn) ==
    LET Ea == getActivationEnergy(alpha, E0, dHrxn)
        raw == RMul(RMul(A, RPow(IntR(temp), n)), Boltzmann(Ea, temp))
    IN  IF ~RLe(Zero, raw)
        THEN [raw |-> raw, raised |-> TRUE, error |-> "AssertionError", result |-> NaN]
        ELSE [raw |-> raw, raised |-> FALSE, error |-> "none", result |-> Clamp(raw)]

Prefactors == {IntR(-1), Zero, <<1, 2>>, IntR(1), IntR(3)}

Exponents == {-1, 0, 1}

SurfaceTemperatures == {1, 2}

\* multiples of 4, so that alpha * dHrxn + E0 is divisible by every T
Energies == {-4, 0, 4}

Slopes == {Zero, <<1, 2>>, IntR(1)}

GetStickingCoefficient ==
    /\ pc = "surface"
    /\ \E A \in Prefactors, n \in Exponents, Ea \in Energies, T0 \in SurfaceTemperatures,
          temp \in SurfaceTemperatures :
        \E out \in {getStickingCoefficient(A, n, Ea, T0, temp)} :
            sticking' = [law |-> "StickingCoefficient", A |-> A, n |-> n, T |-> temp,
                         raw |-> out.raw, raised |-> out.raised,
                         error |-> out.error, result |-> out.result]
    /\ UNCHANGED <<pc, model, reactorState, V, baseArrays, y0, kf, kb,
                   Keq, rateBuffers, colliderTables, generated, call>>

GetStickingCoefficientBEP ==
    /\ pc = "surface"
    /\ \E A \in Prefactors, n \in Exponents, alpha \in Slopes, E0 \in Energies,
          temp \in SurfaceTemperatures, dHrxn \in Energies :
        \E out \in {getStickingCoefficientBEP(A, n, alpha, E0, temp, dHrxn)} :
            sticking' = [law |-> "StickingCoefficientBEP", A |-> A, n |-> n, T |-> temp,
                         raw |-> out.raw, raised |-> out.raised,
                         error |-> out.error, result |-> out.result]
    /\ UNCHANGED <<pc, model, reactorState, V, baseArrays, y0, kf, kb,
                   Keq, rateBuffers, colliderTables, generated, call>>

\* no reactor: only kinetics objects are evaluated
InitSurface ==
    /\ pc = "surface"
    /\ model = SingleReaction
    /\ T = IntR(1)
    /\ P = IntR(1)
    /\ k_sampling = Zero
    /\ initialMoleFractions = << >>
    /\ constantSpeciesList = << >>
    /\ V = Zero
    /\ numCoreSpecies = 0
    /\ numCoreReactions = 0
    /\ speciesIndex = << >>
    /\ reactantIndices = << >>
    /\ productIndices = << >>
    /\ networkIndices = << >>
    /\ networkLeakCoefficients = << >>
    /\ y0 = << >>
    /\ kf = << >>
    /\ kb = << >>
    /\ Keq = << >>
    /\ coreSpeciesConcentrations = << >>
    /\ coreSpeciesRates = << >>
    /\ coreSpeciesProductionRates = << >>
    /\ coreSpeciesConsumptionRates = << >>
    /\ coreReactionRates = << >>
    /\ edgeSpeciesRates = << >>
    /\ edgeReactionRates = << >>
    /\ networkLeakRates = << >>
    /\ pdepColliderReactionIndices = << >>
    /\ pdepColliderKinetics = << >>
    /\ colliderEfficiencies = << >>
    /\ pdepSpecificColliderReactionIndices = << >>
    /\ pdepSpecificColliderKinetics = << >>
    /\ specificColliderSpecies = << >>
    /\ generated = [kf |-> << >>, kb |-> << >>]
    /\ call = NoCall
    /\ sticking = NoSticking

NextSurface ==
    \/ GetStickingCoefficient
    \/ GetStickingCoefficientBEP

SpecSurface == InitSurface /\ [][NextSurface]_vars

(***************************************************************************)
(* Properties                                                              *)
(***************************************************************************)
CoreIndices == 0..(numCoreSpecies - 1)

Returned == call.op = "residual" /\ ~call.raised

\* C1: a residual call that repeats the arguments (y, dydt) of the residual
\* call just before it has the same outcome (the same residual vector, or
\* the same exception) and leaves kf and kb as the first call left them.
C1_IdempotentStep ==
    (call'.op = "residual" /\ call'.repeat) =>
        /\ call'.raised = call.raised
        /\ call'.delta = call.delta
        /\ kf' = kf
        /\ kb' = kb

C1_ResidualIdempotent == [][C1_IdempotentStep]_vars

\* a repeated call that returned, on a reactor whose collider refresh has
\* moved kf away from its initial value
C1_Witness ==
    /\ Returned
    /\ call.repeat
    /\ Size(pdepColliderReactionIndices) > 0
    /\ kf # generated.kf
    /\ \E i \in CoreIndices : call.delta[i] # Zero

\* C2: the vector residual returns is, for every core species i,
\* coreSpeciesRates[i] * V - dydt[i] with V the ideal-gas volume of the y of
\* this call; for the single irreversible reaction X -> E and dydt = 0 the
\* entry of X is -kf * [X] * V.
C2_ResidualAssembly ==
    Returned =>
        /\ V = IdealGasVolume(T, P, call.y, numCoreSpecies)
        /\ DOMAIN call.delta = CoreIndices
        /\ \A i \in CoreIndices :
              call.delta[i] = RSub(RMul(coreSpeciesRates[i], V), call.dydt[i])
        /\ (model = SingleReaction /\ call.dydt = Zeros(numCoreSpecies)) =>
              call.delta[0] =
                  RNeg(RMul(RMul(kf[0], coreSpeciesConcentrations[0]), V))

\* X -> E with 1 mol of X, k = 1 and dydt = 0: delta[X] = -1 * [X] * V = -1
C2_Witness ==
    /\ Returned
    /\ model = SingleReaction
    /\ call.y = [i \in CoreIndices |-> IF i = 0 THEN IntR(1) ELSE Zero]
    /\ call.dydt = Zeros(numCoreSpecies)
    /\ V = RDiv(IntR(R), P)
    /\ coreSpeciesConcentrations[0] = RDiv(P, IntR(R))
    /\ call.delta[0] = IntR(-1)

ReactionIndices == DOMAIN reactantIndices

InGenericTable(j) ==
    \E i \in DOMAIN pdepColliderReactionIndices : pdepColliderReactionIndices[i] = j

InSpecificTable(j) ==
    \E i \in DOMAIN pdepSpecificColliderReactionIndices :
        pdepSpecificColliderReactionIndices[i] = j

\* C3: the reverse rate coefficient of every irreversible reaction is 0 after
\* initialization and after any sequence of residual calls.
C3_IrreversibleKbZero ==
    pc = "initialized" =>
        \A j \in ReactionIndices :
            ~allReactions(model)[j].reversible => kb[j] = Zero

\* a residual call refreshed kf of the irreversible reaction 0 from a
\* collider table and raised at the division by its equilibrium constant 0
C3_Witness ==
    /\ pc = "initialized"
    /\ call.op = "residual"
    /\ call.raised
    /\ ~allReactions(model)[0].reversible
    /\ InGenericTable(0) \/ InSpecificTable(0)
    /\ Keq[0] = Zero
    /\ kf[0] # generated.kf[0]
    /\ kb[0] = Zero

\* C4: kf and kb of every reaction that is in neither collider table keep
\* the values generate_rate_coefficients wrote, whatever residual is given.
C4_UntabledRatesFrozen ==
    pc = "initialized" =>
        \A j \in ReactionIndices :
            (~InGenericTable(j) /\ ~InSpecificTable(j)) =>
                kf[j] = generated.kf[j] /\ kb[j] = generated.kb[j]

\* residual returned after refreshing table entries away from their initial
\* values, next to a pressure-dependent reaction that is in neither table
C4_Witness ==
    /\ Returned
    /\ \E j \in ReactionIndices : InGenericTable(j) /\ kf[j] # generated.kf[j]
    /\ \E j \in ReactionIndices : InSpecificTable(j) /\ kb[j] # generated.kb[j]
    /\ \E j \in ReactionIndices :
          /\ ~InGenericTable(j) /\ ~InSpecificTable(j)
          /\ isPressureDependent(allReactions(model)[j].kinetics)
          /\ kf[j] # Zero /\ kb[j] # Zero

\* C5: a call whose total of core moles is <= 0 signals DegenerateStateError:
\* the volume and concentration calculation of initializeModel and residual,
\* calculate_effective_pressure and the refresh inside residual.
C5_DegenerateStateSignalled ==
    /\ (call.op = "residual" /\ RLe(SumCore(call.y, numCoreSpecies), Zero)) =>
          call.error = "DegenerateStateError"
    /\ (/\ call.op \in {"initializeModel", "calculate_effective_pressure"}
        /\ RLe(SumCore(y0, numCoreSpecies), Zero)) =>
          call.error = "DegenerateStateError"

LabelOf(i) == SpeciesAt(i).label

\* C6: for core species j labelled X_obs and core species r labelled X, the
\* rates residual stores for j are k_sampling * (C[r] - C[j]) (net),
\* k_sampling * C[j] (consumption) and k_sampling * C[r] (production).
C6_SamplingOverride ==
    Returned =>
        \A j \in CoreIndices, r \in CoreIndices :
            LabelOf(j) = Append(LabelOf(r), Marker) =>
                LET C == coreSpeciesConcentrations
                IN  /\ coreSpeciesRates[j] = RMul(k_sampling, RSub(C[r], C[j]))
                    /\ coreSpeciesConsumptionRates[j] = RMul(k_sampling, C[j])
                    /\ coreSpeciesProductionRates[j] = RMul(k_sampling, C[r])

\* [X] = 2 and [X_obs] = 0 with k_sampling = 2: net 4, consumption 0,
\* production 4, although the reactions had accumulated another net rate
C6_Witness ==
    /\ Returned
    /\ \E j \in CoreIndices, r \in CoreIndices :
          /\ LabelOf(j) = Append(LabelOf(r), Marker)
          /\ coreSpeciesConcentrations[r] = IntR(2)
          /\ coreSpeciesConcentrations[j] = Zero
          /\ coreSpeciesRates[j] = IntR(4)
          /\ coreSpeciesConsumptionRates[j] = Zero
          /\ coreSpeciesProductionRates[j] = IntR(4)
          /\ ReactionLoop(Size(reactantIndices), ZeroBuffers, kf, kb,
                          coreSpeciesConcentrations).coreSpeciesRates[j]
                \notin {Zero, IntR(4)}

SlotsOf(j) ==
    {reactantIndices[j][n] : n \in 1..3} \cup {productIndices[j][n] : n \in 1..3}

\* the arrays of the reaction loop that a step from before to after changed
CoreArraysUntouched(before, after) ==
    /\ after.coreSpeciesRates = before.coreSpeciesRates
    /\ after.coreSpeciesProductionRates = before.coreSpeciesProductionRates
    /\ after.coreSpeciesConsumptionRates = before.coreSpeciesConsumptionRates
    /\ after.coreReactionRates = before.coreReactionRates

\* C7: in the reaction loop of a residual call, the pass of an edge reaction
\* changes nothing but its own edgeReactionRates entry and the
\* edgeSpeciesRates entries of its slots with index >= numCoreSpecies, and
\* leaves every core array alone; the pass of a core reaction touches no
\* edge array and no species index >= numCoreSpecies; so the stored core
\* rates are those of the core reactions alone.
C7_CoreEdgeRouting ==
    Returned =>
        LET C == coreSpeciesConcentrations
            coreOnly == ReactionLoop(numCoreReactions, ZeroBuffers, kf, kb, C)
        IN  /\ \A j \in ReactionIndices :
                LET before == ReactionLoop(j, ZeroBuffers, kf, kb, C)
                    after == ReactionStep(before, j, kf, kb, C)
                IN  IF j >= numCoreReactions
                    THEN /\ CoreArraysUntouched(before, after)
                         /\ \A e \in DOMAIN edgeSpeciesRates :
                               after.edgeSpeciesRates[e] # before.edgeSpeciesRates[e]
                                   => (e + numCoreSpecies) \in SlotsOf(j)
                         /\ \A e \in DOMAIN edgeReactionRates :
                               after.edgeReactionRates[e] # before.edgeReactionRates[e]
                                   => e = j - numCoreReactions
                    ELSE /\ after.edgeSpeciesRates = before.edgeSpeciesRates
                         /\ after.edgeReactionRates = before.edgeReactionRates
                         /\ \A sl \in SlotsOf(j) : sl < numCoreSpecies
                         /\ DOMAIN after.coreSpeciesRates = CoreIndices
            /\ coreReactionRates = coreOnly.coreReactionRates
            /\ \A i \in CoreIndices :
                  SamplingSources(i, C) = {} =>
                      /\ coreSpeciesRates[i] = coreOnly.coreSpeciesRates[i]
                      /\ coreSpeciesProductionRates[i] =
                             coreOnly.coreSpeciesProductionRates[i]
                      /\ coreSpeciesConsumptionRates[i] =
                             coreOnly.coreSpeciesConsumptionRates[i]

\* an edge reaction with a core reactant and an edge product ran at a
\* non-zero rate and fed the edge species
C7_Witness ==
    /\ Returned
    /\ \E j \in ReactionIndices :
          /\ j >= numCoreReactions
          /\ \E sl \in SlotsOf(j) : sl >= 0 /\ sl < numCoreSpecies
          /\ \E sl \in SlotsOf(j) : sl >= numCoreSpecies
          /\ edgeReactionRates[j - numCoreReactions] # Zero
          /\ IsFinite(edgeReactionRates[j - numCoreReactions])
    /\ \E e \in DOMAIN edgeSpeciesRates :
          edgeSpeciesRates[e] # Zero /\ IsFinite(edgeSpeciesRates[e])
    /\ \E i \in CoreIndices : coreSpeciesRates[i] # Zero

\* P * sum_k(eff[k] * y[k]) / sum_k(y[k]) over the core species
CollisionWeightedPressure(eff, y) ==
    RMul(P, RDiv(SumTo([k \in CoreIndices |-> RMul(eff[k], y[k])], numCoreSpecies),
                 SumCore(y, numCoreSpecies)))

\* C8: in a residual call on a non-zero total of core moles, the generic
\* refresh gives the reaction j of every entry i of the generic-collider
\* table the rate of its kinetics at T and the effective pressure
\* P * sum(efficiency[i] * y) / sum(y) of the y of this call, and
\* kb[j] = kf[j] / Keq[j].
C8_GenericRefresh ==
    (/\ call.op = "residual"
     /\ call.genericDone
     /\ SumCore(call.y, numCoreSpecies) # Zero) =>
        \A i \in DOMAIN pdepColliderReactionIndices :
            LET Peff == CollisionWeightedPressure(colliderEfficiencies[i], call.y)
            IN  /\ call.generic[i].kf =
                       getRateCoefficient(pdepColliderKinetics[i], T, Peff)
                /\ call.generic[i].kb =
                       RDiv(call.generic[i].kf, Keq[pdepColliderReactionIndices[i]])

\* efficiencies {X: 2, X_obs: 1} and one mole of each: 1.5 * P, on a reactor
\* whose initial moles were different
C8_Witness ==
    /\ Returned
    /\ call.y = [k \in CoreIndices |-> IntR(1)]
    /\ y0 # call.y
    /\ \E i \in DOMAIN pdepColliderReactionIndices :
          /\ colliderEfficiencies[i] = [k \in CoreIndices |-> IF k = 0 THEN IntR(2) ELSE IntR(1)]
          /\ CollisionWeightedPressure(colliderEfficiencies[i], call.y) =
                 RMul(P, <<3, 2>>)
          /\ call.generic[i].kf = RDiv(RMul(P, <<3, 2>>), RMul(IntR(R), T))
          /\ kf[pdepColliderReactionIndices[i]] = call.generic[i].kf
          /\ kf[pdepColliderReactionIndices[i]] #
                 generated.kf[pdepColliderReactionIndices[i]]

\* C9: calculate_effective_pressure returns P * y0[specific collider] /
\* sum(y0 of the core species) for every pressure-dependent reaction that has
\* a specific collider, and P for a reaction that meets neither the generic
\* nor the specific criterion.
C9_SpecificColliderPressure ==
    call.op = "calculate_effective_pressure" =>
        LET rxn == allReactions(model)[call.rxn]
            generic == isPressureDependent(rxn.kinetics)
                           /\ rxn.kinetics.efficiencies # NoEfficiencies
            specific == isPressureDependent(rxn.kinetics)
                            /\ rxn.specificCollider # NoneVal
        IN  /\ specific =>
                  call.result = RDiv(RMul(P, y0[speciesIndex[rxn.specificCollider]]),
                                     SumCore(y0, numCoreSpecies))
            /\ (~generic /\ ~specific) => call.result = P

\* C9 on reactors with a positive total of initial core moles
C9_SpecificColliderPressurePositive ==
    RLt(Zero, SumCore(y0, numCoreSpecies)) => C9_SpecificColliderPressure

\* C10: a sticking coefficient that is returned lies in [0, 1]: a raw value
\* above 1 comes back as 1, a raw value in [0, 1] as itself, and a negative
\* raw value raises instead of being returned.
C10_StickingInUnitInterval ==
    sticking.law # "none" =>
        /\ sticking.raised <=> RLt(sticking.raw, Zero)
        /\ ~sticking.raised =>
              /\ RLe(Zero, sticking.result)
              /\ RLe(sticking.result, IntR(1))
              /\ RLt(IntR(1), sticking.raw) => sticking.result = IntR(1)
              /\ RLe(sticking.raw, IntR(1)) => sticking.result = sticking.raw

\* a Bronsted-Evans-Polanyi law whose raw value 6 was returned as 1
C10_Witness ==
    /\ sticking.law = "StickingCoefficientBEP"
    /\ ~sticking.raised
    /\ sticking.raw = IntR(6)
    /\ sticking.result = IntR(1)

\* a negative prefactor rejected by StickingCoefficient
C10_WitnessRejected ==
    /\ sticking.law = "StickingCoefficient"
    /\ sticking.raised
    /\ sticking.error = "ValueError"
    /\ RLt(sticking.raw, Zero)

\* C11 as stated: a sticking-coefficient law that evaluates to a negative
\* value does not fail; the value is clamped to the bound 0 and returned.
C11_NegativeClamped ==
    (sticking.law # "none" /\ RLt(sticking.raw, Zero)) =>
        /\ ~sticking.raised
        /\ sticking.result = Zero

\* C11 as amended: a sticking-coefficient law that evaluates to a negative
\* value fails, StickingCoefficient with a ValueError and
\* StickingCoefficientBEP with an AssertionError, and returns nothing; the
\* only clamping is of values above 1.
C11_NegativeRaises ==
    (sticking.law # "none" /\ RLt(sticking.raw, Zero)) =>
        /\ sticking.raised
        /\ sticking.result = NaN
        /\ sticking.law = "StickingCoefficient" => sticking.error = "ValueError"
        /\ sticking.law = "StickingCoefficientBEP" =>
              sticking.error = "AssertionError"

\* the negative value -1/2 of a Bronsted-Evans-Polanyi law failing its
\* assertion
C11_Witness ==
    /\ sticking.law = "StickingCoefficientBEP"
    /\ sticking.raw = <<-1, 2>>
    /\ sticking.raised
    /\ sticking.error = "AssertionError"

\* C12: initialization fails exactly when a key of the initial mole
\* fractions has no species behind it: convertInitialKeysToSpeciesObjects
\* raises the lookup error (Python's KeyError) for a label the dictionary
\* lacks and leaves the mapping as it was; initializeModel raises it in
\* set_initial_conditions for a species without an index, with no y0 slot
\* written for that key and V not computed; residual never raises it and
\* only runs on a reactor all of whose keys have an index.
C12_MissingSpeciesFailsAtInit ==
    /\ call.op = "convertInitialKeysToSpeciesObjects" =>
          /\ call.raised <=> ~(call.keys \subseteq DOMAIN call.speciesDict)
          /\ call.raised =>
                /\ call.error = "KeyError"
                /\ pc = "constructed"
                /\ DOMAIN initialMoleFractions = call.keys
          /\ ~call.raised =>
                DOMAIN initialMoleFractions = {call.speciesDict[l] : l \in call.keys}
    /\ call.op = "initializeModel" =>
          /\ call.raised <=>
                ~(DOMAIN initialMoleFractions \subseteq DOMAIN speciesIndex)
          /\ call.raised =>
                /\ call.error = "KeyError"
                /\ pc = "failed"
                /\ V = Zero
                /\ \A i \in DOMAIN y0 :
                      \/ y0[i] = Zero
                      \/ \E spec \in IndexedKeys(initialMoleFractions, speciesIndex) :
                            /\ speciesIndex[spec] = i
                            /\ y0[i] = IntR(initialMoleFractions[spec])
    /\ call.op = "residual" =>
          /\ call.error # "KeyError"
          /\ DOMAIN initialMoleFractions \subseteq DOMAIN speciesIndex

\* initializeModel failed on the key X_obs, which the model does not hold,
\* after the key X was written to y0
C12_Witness ==
    /\ call.op = "initializeModel"
    /\ call.raised
    /\ Species(LabelXobs) \in DOMAIN initialMoleFractions
    /\ Species(LabelXobs) \notin DOMAIN speciesIndex
    /\ y0[0] = IntR(2)

\* convertInitialKeysToSpeciesObjects failed on the label X_obs
C12_WitnessConversion ==
    /\ call.op = "convertInitialKeysToSpeciesObjects"
    /\ call.raised
    /\ LabelXobs \in call.keys
    /\ LabelXobs \notin DOMAIN call.speciesDict

\* the reactions set_colliders must enter in the generic and in the specific
\* table
GenericReactions ==
    {j \in ReactionIndices :
        /\ isPressureDependent(allReactions(model)[j].kinetics)
        /\ allReactions(model)[j].kinetics.efficiencies # NoEfficiencies}

SpecificReactions ==
    {j \in ReactionIndices :
        /\ isPressureDependent(allReactions(model)[j].kinetics)
        /\ allReactions(model)[j].specificCollider # NoneVal}

\* an index array lists exactly the reactions of a set, once each, in the
\* order of the chain (core reactions first, then edge reactions)
ListsInScanOrder(indices, reactions) ==
    /\ DOMAIN indices = 0..(Cardinality(reactions) - 1)
    /\ {indices[i] : i \in DOMAIN indices} = reactions
    /\ \A i, k \in DOMAIN indices : i < k => indices[i] < indices[k]

\* C13: after set_colliders the generic table lists exactly the
\* pressure-dependent reactions with a non-empty efficiency map, the
\* specific table exactly the pressure-dependent reactions with a specific
\* collider, each once and in scan order (core first, then edge); a reaction
\* that is not pressure-dependent is in neither; the lists of a table have
\* equal length and position i of each belongs to the same reaction.
C13_ColliderTablesBuilt ==
    pc = "initialized" =>
        /\ ListsInScanOrder(pdepColliderReactionIndices, GenericReactions)
        /\ ListsInScanOrder(pdepSpecificColliderReactionIndices, SpecificReactions)
        /\ DOMAIN pdepColliderKinetics = DOMAIN pdepColliderReactionIndices
        /\ DOMAIN colliderEfficiencies = DOMAIN pdepColliderReactionIndices
        /\ DOMAIN pdepSpecificColliderKinetics =
              DOMAIN pdepSpecificColliderReactionIndices
        /\ DOMAIN specificColliderSpecies = DOMAIN pdepSpecificColliderReactionIndices
        /\ \A i \in DOMAIN pdepColliderReactionIndices :
              LET rxn == allReactions(model)[pdepColliderReactionIndices[i]]
              IN  /\ pdepColliderKinetics[i] = rxn.kinetics
                  /\ \A k \in CoreIndices :
                        colliderEfficiencies[i][k] =
                            IF k \in DOMAIN rxn.kinetics.efficiencies
                            THEN rxn.kinetics.efficiencies[k] ELSE IntR(1)
        /\ \A i \in DOMAIN pdepSpecificColliderReactionIndices :
              LET rxn == allReactions(model)[pdepSpecificColliderReactionIndices[i]]
              IN  /\ pdepSpecificColliderKinetics[i] = rxn.kinetics
                  /\ specificColliderSpecies[i] = rxn.specificCollider
        /\ \A j \in ReactionIndices :
              ~isPressureDependent(allReactions(model)[j].kinetics) =>
                  ~InGenericTable(j) /\ ~InSpecificTable(j)

\* reaction 0 is in both tables, reaction 1 only in the generic and the edge
\* reaction 3 only in the specific one; the edge reaction 2 names a collider
\* but is not pressure-dependent and is in neither
C13_Witness ==
    /\ pc = "initialized"
    /\ pdepColliderReactionIndices = ToArray(<<0, 1>>)
    /\ pdepSpecificColliderReactionIndices = ToArray(<<0, 3>>)
    /\ allReactions(model)[2].specificCollider = SpX
    /\ ~isPressureDependent(allReactions(model)[2].kinetics)

\* C14: once initializeModel has built the collider tables, the six lists
\* are what set_colliders produced from the model, after the rest of
\* initializeModel and after any number of residual calls.
C14_ColliderTablesFrozen ==
    pc = "initialized" => Tables = set_colliders(model)

\* a residual call has refreshed kf through two generic entries and left
\* the tables in place
C14_Witness ==
    /\ Returned
    /\ Size(pdepColliderReactionIndices) = 2
    /\ Size(pdepSpecificColliderReactionIndices) = 2
    /\ kf # generated.kf

\* C15: reconstructing a reactor from the tuple of __reduce__ succeeds and
\* gives a reactor with the T, P, initial mole fractions and termination
\* criteria of the original, its volume and collider tables unset.
C15_PickleRoundTrip ==
    call.op = "pickle" =>
        /\ ~call.result.raised
        /\ call.result.T = T
        /\ call.result.P = P
        /\ call.result.initialMoleFractions = initialMoleFractions
        /\ call.result.termination = termination
        /\ call.result.V = Zero
        /\ call.result.colliderTables = "None"

\* the initial mole fractions are the same mapping before and after a step.
\* The keys are labels (strings) until the conversion and species objects
\* after it, and a string never equals a species object.
MappingUnchanged ==
    IF (pc = "constructed") <=> (pc' = "constructed")
    THEN initialMoleFractions' = initialMoleFractions
    ELSE DOMAIN initialMoleFractions = {} /\ DOMAIN initialMoleFractions' = {}

\* the volume the ideal-gas law gives for the vector of a residual call
VolumeOfCall(c) ==
    RDiv(RMul(RMul(IntR(R), T), SumTo(c.y, numCoreSpecies)), P)

C16_ImmutableStep ==
    /\ T' = T
    /\ P' = P
    /\ k_sampling' = k_sampling
    /\ constantSpeciesList' = constantSpeciesList
    /\ MappingUnchanged
    /\ V' # V => call'.op \in {"initializeModel", "residual"}
    /\ call'.op = "residual" => V' = VolumeOfCall(call')

\* C16 as stated: no operation changes T, P, k_sampling, the initial
\* mole-fraction mapping or the constant-species list; V is the only field
\* of the reactor state that changes, and every residual call rewrites it.
C16_ReactorStateImmutable == [][C16_ImmutableStep]_vars

C16_LifecycleStep ==
    /\ T' = T
    /\ P' = P
    /\ k_sampling' = k_sampling
    /\ constantSpeciesList' = constantSpeciesList
    /\ IF call'.op = "convertInitialKeysToSpeciesObjects" /\ ~call'.raised
       THEN /\ DOMAIN initialMoleFractions' =
                  {call'.speciesDict[l] : l \in DOMAIN initialMoleFractions}
            /\ \A l \in DOMAIN initialMoleFractions :
                  initialMoleFractions'[call'.speciesDict[l]] =
                      initialMoleFractions[l]
       ELSE MappingUnchanged
    /\ V' # V => call'.op \in {"initializeModel", "residual"}
    /\ call'.op = "residual" =>
          V' = IF call'.refreshed THEN VolumeOfCall(call') ELSE V

\* C16 as amended: no operation changes T, P, k_sampling or the
\* constant-species list; convertInitialKeysToSpeciesObjects replaces the
\* initial mole-fraction mapping by one with the same values under species
\* objects instead of labels, and nothing else changes it; V changes only in
\* initializeModel and residual, and a residual call rewrites it from its y
\* unless it raises in the collider refresh, before the volume is computed.
C16_ReactorStateLifecycle == [][C16_LifecycleStep]_vars

\* the labels X and X_obs have been replaced by the species objects, with
\* their mole fractions 2 and 1
C16_Witness ==
    /\ call.op = "convertInitialKeysToSpeciesObjects"
    /\ ~call.raised
    /\ DOMAIN initialMoleFractions = {SpX, SpXobs}
    /\ initialMoleFractions[SpX] = 2
    /\ initialMoleFractions[SpXobs] = 1

\* a residual call has replaced the initial volume 1 by the volume 2 of its
\* own mole vector
C16_WitnessVolume ==
    /\ Returned
    /\ y0 = ToArray(<<IntR(1), Zero>>)
    /\ P = IntR(8)
    /\ V = IntR(2)

\* the rewritten fields of the reactor as initializeModel leaves them
FreshFields ==
    LET vol == RDiv(RMul(RMul(IntR(R), T), SumTo(y0, numCoreSpecies)), P)
    IN  [kf |-> generated.kf, kb |-> generated.kb, V |-> vol,
         buffers |->
            [coreSpeciesConcentrations |-> [j \in CoreIndices |-> RDiv(y0[j], vol)],
             coreSpeciesRates |-> Zeros(numCoreSpecies),
             coreSpeciesProductionRates |-> Zeros(numCoreSpecies),
             coreSpeciesConsumptionRates |-> Zeros(numCoreSpecies),
             coreReactionRates |-> Zeros(numCoreReactions),
             edgeSpeciesRates |-> Zeros(Size(edgeSpeciesRates)),
             edgeReactionRates |-> Zeros(Size(edgeReactionRates)),
             networkLeakRates |-> Zeros(Size(networkLeakRates))]]

\* the stored rate buffers and V are those that the last residual call
\* alone leaves on a freshly initialized reactor
StoredAsByFreshCall ==
    LET fresh == residualOn(FreshFields, call.y, call.dydt)
    IN  /\ Fields.buffers = fresh.buffers
        /\ V = fresh.V

\* C17: after any sequence of residual calls, the concentrations, rates and V
\* that the last call stored equal what one residual call with the same y
\* stores on a freshly initialized reactor.
C17_NoCarryOverOnReturn ==
    Returned => StoredAsByFreshCall

\* the second of two returning calls with different mole vectors, on a
\* reactor whose collider refresh has moved kf, left non-zero rates behind
C17_Witness ==
    /\ Returned
    /\ ~call.repeat
    /\ kf # generated.kf
    /\ FreshFields.buffers.coreSpeciesConcentrations # coreSpeciesConcentrations
    /\ \E i \in CoreIndices : coreSpeciesRates[i] \notin {Zero, NaN}

\* C18: with T > 0 and P > 0, whenever set_initial_conditions or a residual
\* call stores a volume for a vector whose core moles have a strictly
\* positive total, V is strictly positive and equals R * T * total / P.  (A
\* residual call that raises in the collider refresh stores no volume.)
C18_VolumePositive ==
    (RLt(Zero, T) /\ RLt(Zero, P)) =>
        /\ (/\ call.op = "initializeModel"
            /\ ~call.raised
            /\ RLt(Zero, SumTo(y0, numCoreSpecies))) =>
                /\ V = RDiv(RMul(RMul(IntR(R), T), SumTo(y0, numCoreSpecies)), P)
                /\ RLt(Zero, V)
        /\ (/\ call.op = "residual"
            /\ call.refreshed
            /\ RLt(Zero, SumTo(call.y, numCoreSpecies))) =>
                /\ V = VolumeOfCall(call)
                /\ RLt(Zero, V)

\* at P = 16 a residual call with 1 mol of each core species has replaced
\* the initial volume 3/2 by the volume 1
C18_Witness ==
    /\ call.op = "residual"
    /\ call.refreshed
    /\ call.y = ToArray(<<IntR(1), IntR(1)>>)
    /\ y0 = ToArray(<<IntR(2), IntR(1)>>)
    /\ P = IntR(16)
    /\ V = IntR(1)

\* k times the stored concentrations of the slots 1..n that hold a species
RECURSIVE ConcentrationProduct(_, _, _)
ConcentrationProduct(k, slots, n) ==
    IF n = 0 THEN k
    ELSE IF slots[n] = -1 THEN ConcentrationProduct(k, slots, n - 1)
    ELSE RMul(ConcentrationProduct(k, slots, n - 1),
              coreSpeciesConcentrations[slots[n]])

\* the rate of one direction of a reaction: 0 when a slot holds an edge
\* species
ExpectedDirection(k, slots) ==
    IF \E n \in 1..3 : slots[n] >= numCoreSpecies THEN Zero
    ELSE ConcentrationProduct(k, slots, 3)

ForwardRate(j) == ExpectedDirection(kf[j], reactantIndices[j])

ReverseRate(j) == ExpectedDirection(kb[j], productIndices[j])

\* C19: after a residual call the rate stored for every reaction j, in
\* coreReactionRates for a core reaction and in edgeReactionRates for an edge
\* reaction, is forward minus reverse: forward is kf[j] times the
\* concentrations of the reactant slots in use, reverse is kb[j] times those
\* of the product slots in use, and either is 0 when one of its slots holds an
\* index >= numCoreSpecies.
C19_ReactionRates ==
    Returned =>
        \A j \in ReactionIndices :
            LET rate == RSub(ForwardRate(j), ReverseRate(j))
            IN  IF j < numCoreReactions
                THEN coreReactionRates[j] = rate
                ELSE edgeReactionRates[j - numCoreReactions] = rate

\* with 1 mol of X and of X_obs: the three-reactant core reaction 1 runs, the
\* edge reaction X + X -> E has only its forward rate and the edge reaction
\* E <=> X + X_obs only its reverse rate
C19_Witness ==
    /\ Returned
    /\ call.y = ToArray(<<IntR(1), IntR(1)>>)
    /\ Size(reactantIndices) = 4
    /\ reactantIndices[1] = <<0, 1, 0>>
    /\ coreReactionRates[1] \notin {Zero, NaN}
    /\ RLt(Zero, edgeReactionRates[0])
    /\ RLt(edgeReactionRates[1], Zero)

\* the number of slots of a reaction's index row that hold species i
Occurrences(slots, i) == Cardinality({n \in 1..3 : slots[n] = i})

\* total + amount + ... + amount, count times
RECURSIVE AddTimes(_, _, _)
AddTimes(total, amount, count) ==
    IF count = 0 THEN total ELSE AddTimes(RAdd(total, amount), amount, count - 1)

\* what the core reactions 0..n-1 contribute to species i: per reactant slot
\* and per product slot the amounts that asReactant and asProduct name
\* ("forward", "reverse", "net" or "-net")
Amount(which, j) ==
    CASE which = "forward" -> ForwardRate(j)
      [] which = "reverse" -> ReverseRate(j)
      [] which = "net"     -> RSub(ForwardRate(j), ReverseRate(j))
      [] which = "-net"    -> RNeg(RSub(ForwardRate(j), ReverseRate(j)))

RECURSIVE CoreTotal(_, _, _, _)
CoreTotal(i, n, asReactant, asProduct) ==
    IF n = 0 THEN Zero
    ELSE AddTimes(AddTimes(CoreTotal(i, n - 1, asReactant, asProduct),
                           Amount(asReactant, n - 1),
                           Occurrences(reactantIndices[n - 1], i)),
                  Amount(asProduct, n - 1),
                  Occurrences(productIndices[n - 1], i))

\* the sum over the core reactions 0..n-1 of (product slots minus reactant
\* slots that species i fills) times the stored rate of the reaction
RECURSIVE NetByMultiplicity(_, _)
NetByMultiplicity(i, n) ==
    IF n = 0 THEN Zero
    ELSE RAdd(NetByMultiplicity(i, n - 1),
              RMul(IntR(Occurrences(productIndices[n - 1], i)
                        - Occurrences(reactantIndices[n - 1], i)),
                   coreReactionRates[n - 1]))

\* the sampling step replaces the rates of core species i: its label carries
\* the marker and the species of the stripped label is a core species
Sampled(i) ==
    /\ HasMarker(LabelOf(i))
    /\ \E r \in CoreIndices : LabelOf(r) = StripMarker(LabelOf(i))

\* C20: after a residual call, for every core species that the sampling step
\* does not override, the stored net rate is the sum over the core reactions
\* of minus the net rate per reactant slot it fills and plus the net rate per
\* product slot; its consumption rate is the sum of the forward rates per
\* reactant slot and the reverse rates per product slot; its production rate
\* is the sum of the reverse rates per reactant slot and the forward rates per
\* product slot.  With finite reaction rates the net rate is the sum of
\* (product slots minus reactant slots) times the rate of the reaction.
C20_CoreAccumulation ==
    Returned =>
        \A i \in CoreIndices :
            ~Sampled(i) =>
                /\ coreSpeciesRates[i] = CoreTotal(i, numCoreReactions, "-net", "net")
                /\ (\A j \in DOMAIN coreReactionRates :
                        IsFinite(coreReactionRates[j])) =>
                      coreSpeciesRates[i] = NetByMultiplicity(i, numCoreReactions)
                /\ coreSpeciesConsumptionRates[i] =
                      CoreTotal(i, numCoreReactions, "forward", "reverse")
                /\ coreSpeciesProductionRates[i] =
                      CoreTotal(i, numCoreReactions, "reverse", "forward")

\* X fills one slot of core reaction 0 and two reactant slots of core
\* reaction 1, both reversible and running in both directions
C20_Witness ==
    /\ Returned
    /\ numCoreReactions = 2
    /\ Occurrences(reactantIndices[1], 0) = 2
    /\ ~Sampled(0)
    /\ Sampled(1)
    /\ coreSpeciesRates[0] \notin {Zero, NaN}
    /\ IsFinite(coreSpeciesConsumptionRates[0])
    /\ RLt(Zero, coreSpeciesConsumptionRates[0])
    /\ IsFinite(coreSpeciesProductionRates[0])
    /\ RLt(Zero, coreSpeciesProductionRates[0])

\* the label ends with the marker
EndsWithMarker(label) == Len(label) > 0 /\ label[Len(label)] = Marker

\* the core species that carry exactly the label of core species i without
\* its marker suffix
SamplingPairs(i) ==
    {r \in CoreIndices :
        /\ EndsWithMarker(LabelOf(i))
        /\ LabelOf(r) = SubSeq(LabelOf(i), 1, Len(LabelOf(i)) - 1)}

\* C21: the sampling step changes the rates only of core species whose label
\* ends with the marker and whose twin, the species labelled with exactly
\* the rest, is a core species; every other core species (the twin itself,
\* an observed species without twin or with an edge twin, a species that
\* carries the marker elsewhere in its label) keeps the rates the core
\* reactions accumulated.
C21_SamplingScope ==
    Returned =>
        \A i \in CoreIndices :
            SamplingPairs(i) = {} =>
                /\ coreSpeciesRates[i] = CoreTotal(i, numCoreReactions, "-net", "net")
                /\ coreSpeciesConsumptionRates[i] =
                      CoreTotal(i, numCoreReactions, "forward", "reverse")
                /\ coreSpeciesProductionRates[i] =
                      CoreTotal(i, numCoreReactions, "reverse", "forward")

\* C21 on a reactor with a positive initial mole total, for mole vectors
\* without negative entries
C21_SamplingScopePositive ==
    (/\ Returned
     /\ RLt(Zero, SumTo(y0, numCoreSpecies))
     /\ \A i \in CoreIndices : RLe(Zero, call.y[i])) => C21_SamplingScope

C23_InitialConditions ==
    (call.op = "initializeModel" /\ ~call.raised) =>
        /\ DOMAIN y0 = CoreIndices
        /\ \A spec \in DOMAIN initialMoleFractions :
              y0[speciesIndex[spec]] = IntR(initialMoleFractions[spec])
        /\ \A i \in CoreIndices :
              (\A spec \in DOMAIN initialMoleFractions : speciesIndex[spec] # i)
                  => y0[i] = Zero
        /\ V = RDiv(RMul(RMul(IntR(R), T), SumTo(y0, numCoreSpecies)), P)
        /\ \A j \in CoreIndices :
              coreSpeciesConcentrations[j] = RDiv(y0[j], V)

\* two species supplied with 2 and 1: the values sum to 3 and stay as
\* supplied, at pressure 8 the volume is 3
C23_Witness ==
    /\ call.op = "initializeModel"
    /\ ~call.raised
    /\ numCoreSpecies = 2
    /\ Cardinality(DOMAIN initialMoleFractions) = 2
    /\ y0 = ToArray(<<IntR(2), IntR(1)>>)
    /\ V = IntR(3)
    /\ coreSpeciesConcentrations = ToArray(<<<<2, 3>>, <<1, 3>>>>)

\* the steps of initializeModel entered so far
SetupSteps == IF call.op = "initializeModel" THEN call.steps ELSE << >>

\* step a was entered before every entry of step b
RanBefore(a, b) ==
    \A k \in DOMAIN SetupSteps :
        SetupSteps[k] = b => \E m \in 1..(k - 1) : SetupSteps[m] = a

TimesRun(a) == Cardinality({k \in DOMAIN SetupSteps : SetupSteps[k] = a})

TablesSet ==
    /\ pdepColliderReactionIndices # NoneTable
    /\ pdepColliderKinetics # NoneTable
    /\ colliderEfficiencies # NoneTable
    /\ pdepSpecificColliderReactionIndices # NoneTable
    /\ pdepSpecificColliderKinetics # NoneTable
    /\ specificColliderSpecies # NoneTable

\* C24: within initializeModel, set_initial_conditions runs before
\* set_colliders, set_colliders before generate_rate_coefficients, and that
\* before set_initial_derivative and initialize_solver, each at most once and
\* exactly once when initializeModel has returned; the reactor on which the
\* integrator evaluates residual has kf, kb, Keq, y0, V and the collider
\* tables populated, and no residual evaluation meets a collider field that
\* is None.
C24_SetupOrdering ==
    /\ RanBefore("set_initial_conditions", "set_colliders")
    /\ RanBefore("set_colliders", "generate_rate_coefficients")
    /\ RanBefore("generate_rate_coefficients", "set_initial_derivative")
    /\ RanBefore("generate_rate_coefficients", "initialize_solver")
    /\ \A k \in DOMAIN SetupSteps : TimesRun(SetupSteps[k]) = 1
    /\ (pc = "initialized" /\ call.op = "initializeModel") =>
          /\ \A a \in {"set_initial_conditions", "set_colliders",
                       "generate_rate_coefficients", "set_initial_derivative",
                       "initialize_solver"} : TimesRun(a) = 1
          /\ TablesSet
          /\ DOMAIN kf = ReactionIndices
          /\ DOMAIN kb = ReactionIndices
          /\ DOMAIN Keq = ReactionIndices
          /\ kf = generated.kf
          /\ kb = generated.kb
          /\ DOMAIN y0 = CoreIndices
          /\ V = IdealGasVolume(T, P, y0, numCoreSpecies)
    /\ call.op = "residual" => (pc = "initialized" /\ TablesSet)

\* initializeModel has returned for a mechanism with entries in both
\* collider tables
C24_Witness ==
    /\ pc = "initialized"
    /\ call.op = "initializeModel"
    /\ call.steps = <<"ReactionSystem.initializeModel", "set_initial_conditions",
                      "set_colliders", "compute_network_variables",
                      "generate_rate_coefficients", "set_initial_derivative",
                      "initialize_solver">>
    /\ Size(pdepColliderReactionIndices) > 0
    /\ Size(pdepSpecificColliderReactionIndices) > 0
    /\ \E j \in ReactionIndices : kf[j] # Zero

\* the integrator has evaluated residual on a reactor with both tables
C24_WitnessResidual ==
    /\ call.op = "residual"
    /\ ~call.raised
    /\ Size(pdepColliderReactionIndices) > 0
    /\ Size(pdepSpecificColliderReactionIndices) > 0

\* C25: after a residual call the net rate of every core species, sampled
\* or not, is its production rate minus its consumption rate.
C25_RateBufferConsistency ==
    Returned =>
        \A i \in CoreIndices :
            coreSpeciesRates[i] =
                RSub(coreSpeciesProductionRates[i], coreSpeciesConsumptionRates[i])

\* a species of two reactions, produced and consumed at different finite
\* rates, next to a species the sampling step overrode
C25_Witness ==
    /\ Returned
    /\ \E i \in CoreIndices :
          /\ Sampled(i)
          /\ IsFinite(coreSpeciesRates[i])
          /\ coreSpeciesConsumptionRates[i] # Zero
          /\ coreSpeciesProductionRates[i] # Zero
    /\ \E i \in CoreIndices :
          /\ ~Sampled(i)
          /\ IsFinite(coreSpeciesRates[i])
          /\ coreSpeciesRates[i] # Zero
          /\ coreSpeciesConsumptionRates[i] # Zero
          /\ coreSpeciesProductionRates[i] # Zero

C26_FirstCallStep ==
    (/\ call.op = "initializeModel"
     /\ call'.op = "residual"
     /\ call'.y = y0) =>
        \A j \in DOMAIN kf' :
            /\ kf'[j] = generated.kf[j]
            /\ kb'[j] = generated.kb[j]

\* C26: a residual call with y = y0 directly after initializeModel leaves
\* every kf[j] and kb[j] at the value generate_rate_coefficients wrote,
\* whether reaction j is in the generic table, the specific table, both or
\* neither.
C26_InitializationRefreshAgree == [][C26_FirstCallStep]_vars

C26_FirstCallStepPositive ==
    (/\ call.op = "initializeModel"
     /\ call'.op = "residual"
     /\ ~call'.raised
     /\ \A i \in DOMAIN y0 : RLe(Zero, y0[i])
     /\ RLt(Zero, SumTo(y0, numCoreSpecies))
     /\ \A j \in DOMAIN pdepSpecificColliderReactionIndices :
            allReactions(model)[pdepSpecificColliderReactionIndices[j]].reversible
     /\ \A j \in DOMAIN pdepColliderReactionIndices :
            allReactions(model)[pdepColliderReactionIndices[j]].reversible)
        => C26_FirstCallStep

\* C26 for a first call that returns on a reactor with a positive mole total
\* and only reversible reactions in the collider tables.
C26_InitializationRefreshAgreePositive == [][C26_FirstCallStepPositive]_vars

EdgeSlots(slots) == {n \in 1..3 : slots[n] >= numCoreSpecies}

\* C27: when every kf, kb and core concentration is >= 0, after a residual
\* call no edge species has a negative rate: an edge reaction with an edge
\* reactant has no forward rate (its net rate is <= 0), one with an edge
\* product has no reverse rate (its net rate is >= 0), and one with edge
\* species on both sides has net rate 0.
C27_EdgeFluxNonNegative ==
    (/\ Returned
     /\ \A j \in ReactionIndices : RLe(Zero, kf[j]) /\ RLe(Zero, kb[j])
     /\ \A i \in CoreIndices : RLe(Zero, coreSpeciesConcentrations[i])) =>
        /\ \A e \in DOMAIN edgeSpeciesRates : RLe(Zero, edgeSpeciesRates[e])
        /\ \A j \in DOMAIN edgeReactionRates :
              LET re == EdgeSlots(reactantIndices[j + numCoreReactions])
                  pr == EdgeSlots(productIndices[j + numCoreReactions])
              IN  /\ re # {} => RLe(edgeReactionRates[j], Zero)
                  /\ pr # {} => RLe(Zero, edgeReactionRates[j])
                  /\ (re # {} /\ pr # {}) => edgeReactionRates[j] = Zero

\* the edge species gains from an edge reaction that consumes it on paper
\* (E <=> X + X_obs running backwards) and from one that produces it
C27_Witness ==
    /\ Returned
    /\ \A j \in ReactionIndices : RLe(Zero, kf[j]) /\ RLe(Zero, kb[j])
    /\ \A i \in CoreIndices : RLt(Zero, coreSpeciesConcentrations[i])
    /\ \E e \in DOMAIN edgeSpeciesRates : RLt(Zero, edgeSpeciesRates[e])
    /\ \E j \in DOMAIN edgeReactionRates :
          /\ EdgeSlots(reactantIndices[j + numCoreReactions]) # {}
          /\ RLt(edgeReactionRates[j], Zero)
    /\ \E j \in DOMAIN edgeReactionRates :
          /\ EdgeSlots(productIndices[j + numCoreReactions]) # {}
          /\ RLt(Zero, edgeReactionRates[j])

\* an edge reaction with the edge species on both sides, at rate 0 although
\* its core reactant is present
C27_WitnessBothSides ==
    /\ Returned
    /\ \A i \in CoreIndices : RLt(Zero, coreSpeciesConcentrations[i])
    /\ \E j \in DOMAIN edgeReactionRates :
          /\ EdgeSlots(reactantIndices[j + numCoreReactions]) # {}
          /\ EdgeSlots(productIndices[j + numCoreReactions]) # {}
          /\ kf[j + numCoreReactions] # Zero
          /\ edgeReactionRates[j] = Zero

\* the stored concentrations are those of the mole vector y at the stored
\* volume, and their sum is that of an ideal gas at pressure P
IsobaricFor(y) ==
    /\ \A j \in CoreIndices : RMul(coreSpeciesConcentrations[j], V) = y[j]
    /\ RMul(RMul(SumTo(coreSpeciesConcentrations, numCoreSpecies), IntR(R)), T) = P

\* C28: after set_initial_conditions and after every residual call with a
\* positive total of core moles, every stored concentration times V is the
\* mole number of its species, and the sum of the concentrations times R*T
\* is P.
C28_Isobaric ==
    /\ (/\ call.op = "initializeModel"
        /\ ~call.raised
        /\ RLt(Zero, SumTo(y0, numCoreSpecies))) => IsobaricFor(y0)
    /\ (Returned /\ RLt(Zero, SumTo(call.y, numCoreSpecies))) => IsobaricFor(call.y)

\* a residual call at a composition other than the initial one: y = [1, 1]
\* after y0 = [1, 0], at pressure 8
C28_Witness ==
    /\ Returned
    /\ numCoreSpecies = 2
    /\ y0 = ToArray(<<IntR(1), Zero>>)
    /\ call.y = ToArray(<<IntR(1), IntR(1)>>)
    /\ V = IntR(2)
    /\ coreSpeciesConcentrations = ToArray(<<<<1, 2>>, <<1, 2>>>>)

\* the reactor after initializeModel with the moles 2 and 1 at pressure 16
C28_WitnessInitial ==
    /\ call.op = "initializeModel"
    /\ ~call.raised
    /\ P = IntR(16)
    /\ y0 = ToArray(<<IntR(2), IntR(1)>>)
    /\ coreSpeciesConcentrations = ToArray(<<<<4, 3>>, <<2, 3>>>>)

====
